---- MODULE Spec2Model ----
(***************************************************************************)
(* A model of the data-preparation scripts of megascans-rendering:         *)
(*   utils.py                 get_euler_angles, copy_files                 *)
(*   prepare_for_training.py  prepare_for_training                         *)
(*   render_dataset.py        generate_camera_angles, run                  *)
(*   filter_models.py         compute_opacities, filter_models             *)
(*   export_gltf.py           run                                          *)
(*   remove_small_images.py   remove_small_images                          *)
(* Each script is an independent command, so each has a specification of   *)
(* its own (SpecEuler, SpecAngles, SpecPrepare, SpecFilter, SpecExport,    *)
(* SpecRender, SpecRemove) over its own variables; the variables of the    *)
(* other scripts stay idle.                                                *)
(*                                                                         *)
(* Real numbers.  The scripts compute in binary floating point.  The model *)
(* computes in decimal fixed point with eight fractional digits: the       *)
(* integer k stands for the real k * 1e-8, and every operation rounds its  *)
(* exact result to the nearest such number, as a floating point operation  *)
(* rounds to the nearest float.  All the tolerances of the code (1e-8,     *)
(* 1e-6, 1e-5) are whole numbers of units.  TLC's integers are 32 bits     *)
(* wide, so products are formed in two halves (MulFull).                   *)
(***************************************************************************)
EXTENDS Integers, Sequences, FiniteSets, TLC

\* One, in units of 1e-8.
Unit == 10^8
\* The half-width used to form 64-bit products out of 32-bit ones.
Split == 10^4

\* np.pi in units of 1e-8 (3.14159264, the multiple of 8 units nearest to pi,
\* so that pi/2 and pi/4 are whole numbers of units too).
Pi == 314159264
HalfPi == Pi \div 2
QuarterPi == Pi \div 4
TwoPi == 2 * Pi

Abs(x) == IF x < 0 THEN -x ELSE x
Min(a, b) == IF a < b THEN a ELSE b
Max(a, b) == IF a > b THEN a ELSE b

\* The exact product of a, b >= 0 as hi * Unit + lo, 0 <= lo < Unit.
MulFull(a, b) ==
    LET a1 == a \div Split
        a0 == a % Split
        b1 == b \div Split
        b0 == b % Split
        m  == a1 * b0 + a0 * b1
        lo == (m % Split) * Split + a0 * b0
    IN  [hi |-> a1 * b1 + (m \div Split) + (lo \div Unit), lo |-> lo % Unit]

\* The product p = hi * Unit + lo in units, rounded to the nearest one.
RoundHalf(p) == p.hi + (IF 2 * p.lo >= Unit THEN 1 ELSE 0)

\* r >= 0 with the sign given.
Signed(negative, r) == IF negative THEN -r ELSE r

\* a * b, rounded to the nearest unit.
MulS(a, b) == Signed((a < 0) # (b < 0), RoundHalf(MulFull(Abs(a), Abs(b))))

\* The first n decimal digits of r / b (0 <= r < b), the last one rounded.
RECURSIVE FracDigits(_, _, _)
FracDigits(r, b, n) ==
    IF n = 0 THEN (IF 2 * r >= b THEN 1 ELSE 0)
    ELSE ((10 * r) \div b) * 10^(n - 1) + FracDigits((10 * r) % b, b, n - 1)

\* a / b for a >= 0, b > 0, rounded to the nearest unit.
DivS(a, b) == (a \div b) * Unit + FracDigits(a % b, b, 8)

\* Whether the product p = hi * Unit + lo is at most v * Unit.
ProductAtMost(p, v) == p.hi < v \/ (p.hi = v /\ p.lo = 0)

\* Whether r * r <= v * Unit.
SquareAtMost(r, v) == ProductAtMost(MulFull(r, r), v)

\* The greatest r in lo..hi with r * r <= v * Unit.
RECURSIVE SqrtFloor(_, _, _)
SqrtFloor(v, lo, hi) ==
    IF lo >= hi THEN lo
    ELSE LET mid == (lo + hi + 1) \div 2
         IN  IF SquareAtMost(mid, v) THEN SqrtFloor(v, mid, hi)
             ELSE SqrtFloor(v, lo, mid - 1)

\* r or r + 1, whichever is nearer to the square root of v * Unit, where r is
\* the floor of that root and p = r * r.
SqrtNearest(v, r, p) == IF (v - p.hi) * Unit - p.lo > r THEN r + 1 ELSE r

SqrtRounded(v, r) == SqrtNearest(v, r, MulFull(r, r))

\* np.sqrt: the square root of v >= 0, rounded to the nearest unit.
Sqrt(v) == SqrtRounded(v, SqrtFloor(v, 0, Max(v, Unit)))

\* The sum over k >= n of (-1)^k u^(2k+1)/(2k+1), where pw = u^(2n+1), u2 = u^2.
RECURSIVE ArcTanTerms(_, _, _)
ArcTanTerms(pw, u2, n) ==
    IF pw = 0 THEN 0
    ELSE LET t == (pw + n) \div (2 * n + 1)
         IN  t - ArcTanTerms(MulS(pw, u2), u2, n + 1)

ArcTanSeries(u) == ArcTanTerms(u, MulS(u, u), 0)

\* tan(pi/8) = sqrt(2) - 1, where the series hands over to its reflection.
TanPi8 == Sqrt(2 * Unit) - Unit

\* arctan(t) for 0 <= t <= 1, by arctan(t) = pi/4 - arctan((1-t)/(1+t)).
ArcTanUnit(t) ==
    IF t > TanPi8 THEN QuarterPi - ArcTanSeries(DivS(Unit - t, Unit + t))
    ELSE ArcTanSeries(t)

\* arctan(a/b) for a, b >= 0 not both 0: the angle of (b, a) in the first quadrant.
ArcTanFirst(a, b) ==
    IF a <= b THEN ArcTanUnit(DivS(a, b))
    ELSE HalfPi - ArcTanUnit(DivS(b, a))

\* The angle in [0, pi] of a point with abscissa x whose angle to the x axis is t.
InHalfPlane(x, t) == IF x >= 0 THEN t ELSE Pi - t

\* np.arctan2(y, x): the angle of the point (x, y), in [-pi, pi]; 0 at the origin.
ArcTan2(y, x) ==
    IF x = 0 /\ y = 0 THEN 0
    ELSE Signed(y < 0, InHalfPlane(x, ArcTanFirst(Abs(y), Abs(x))))

\* The sum over k >= n of (-1)^(k-n) tm_k, where tm_k = x^(2k+p)/(2k+p)! and p is
\* 1 for the sine and 0 for the cosine; j = 2n + p.
RECURSIVE TrigTerms(_, _, _)
TrigTerms(tm, x2, j) ==
    IF tm = 0 THEN 0
    ELSE LET d == (j + 1) * (j + 2)
             nx == (MulS(tm, x2) + d \div 2) \div d
         IN  tm - TrigTerms(nx, x2, j + 2)

SinSeries(x) == TrigTerms(x, MulS(x, x), 1)
CosSeries(x) == TrigTerms(Unit, MulS(x, x), 0)

\* np.sin and np.cos on [-2pi, 2pi], reduced to [0, pi/4] by the symmetries.
RECURSIVE Sin(_)
Sin(x) ==
    IF x < 0 THEN -Sin(-x)
    ELSE IF x > Pi THEN -Sin(x - Pi)
    ELSE IF x > HalfPi THEN Sin(Pi - x)
    ELSE IF x > QuarterPi THEN CosSeries(HalfPi - x)
    ELSE SinSeries(x)

RECURSIVE Cos(_)
Cos(x) ==
    IF x < 0 THEN Cos(-x)
    ELSE IF x > Pi THEN -Cos(x - Pi)
    ELSE IF x > HalfPi THEN -Cos(Pi - x)
    ELSE IF x >= QuarterPi THEN SinSeries(HalfPi - x)
    ELSE CosSeries(x)

\* np.arccos(c) for -1 <= c <= 1: the angle in [0, pi] whose cosine is c.
ArcCos(c) == ArcTan2(Sqrt(Unit - MulS(c, c)), c)

(***************************************************************************)
(* Matrices.  A transform is a tuple of rows; At reads it with the code's  *)
(* zero-based indices.                                                     *)
(***************************************************************************)
At(T, i, j) == T[i + 1][j + 1]

\* The product of two 3x3 matrices.
MatMul(A, B) ==
    [i \in 1..3 |-> [j \in 1..3 |->
        MulS(A[i][1], B[1][j]) + MulS(A[i][2], B[2][j]) + MulS(A[i][3], B[3][j])]]

Rx(a) == << <<Unit, 0, 0>>, <<0, Cos(a), -Sin(a)>>, <<0, Sin(a), Cos(a)>> >>
Ry(a) == << <<Cos(a), 0, Sin(a)>>, <<0, Unit, 0>>, <<-Sin(a), 0, Cos(a)>> >>
Rz(a) == << <<Cos(a), -Sin(a), 0>>, <<Sin(a), Cos(a), 0>>, <<0, 0, Unit>> >>

\* The 4x4 camera-to-world transform with rotation block R and origin o.
Transform(R, o) ==
    << R[1] \o <<o[1]>>, R[2] \o <<o[2]>>, R[3] \o <<o[3]>>, <<0, 0, 0, Unit>> >>

\* The camera transform with the given Euler angles: Rz(yaw) Ry(roll) Rx(pitch).
RotationOf(yaw, pitch, roll) ==
    Transform(MatMul(MatMul(Rz(yaw), Ry(roll)), Rx(pitch)), <<0, 0, 0>>)

(***************************************************************************)
(* utils.get_euler_angles.  The result is a record: ok is whether the      *)
(* assertion on a negative pitch passed (the function returns a value),    *)
(* raw the pitch before the sign correction.                               *)
(***************************************************************************)
\* 1e-8, the tolerance of the assertion on a negative pitch.
PitchEps == 1

\* The assertion of line 54, as written: pitch < 1e-8 or (pi + pitch) < 1e-8.
PitchAssertion(pitch) == pitch < PitchEps \/ (Pi + pitch) < PitchEps

\* The pitch left as arctan2 returned it.
UncorrectedPitch(pitch) == pitch

\* Lines 53-55: the sign correction of a negative pitch.
CorrectedPitch(pitch) == IF pitch < 0 THEN Abs(pitch) ELSE pitch

\* Lines 53-58: the assertion and the correction of the pitch, and what is returned.
EulerResult(yaw, pitch, roll) ==
    [ok    |-> (pitch < 0) => PitchAssertion(pitch),
     raw   |-> pitch,
     yaw   |-> yaw,
     pitch |-> CorrectedPitch(pitch),
     roll  |-> roll]

\* The extraction with the sign of T[2, 0] lost in the roll.
get_euler_angles_unsigned_roll(T) ==
    EulerResult(ArcTan2(At(T, 1, 0), At(T, 0, 0)),
                ArcTan2(At(T, 2, 1), At(T, 2, 2)),
                ArcTan2(At(T, 2, 0),
                        Sqrt(MulS(At(T, 2, 1), At(T, 2, 1)) + MulS(At(T, 2, 2), At(T, 2, 2)))))

\* Lines 51, 52 and 56: the three angles read off the transform.
get_euler_angles(T) ==
    EulerResult(ArcTan2(At(T, 1, 0), At(T, 0, 0)),
                ArcTan2(At(T, 2, 1), At(T, 2, 2)),
                ArcTan2(-At(T, 2, 0),
                        Sqrt(MulS(At(T, 2, 1), At(T, 2, 1)) + MulS(At(T, 2, 2), At(T, 2, 2)))))

(***************************************************************************)
(* State.  Each script has its own variables; a script that is not the one *)
(* a specification runs stays idle.                                        *)
(***************************************************************************)
VARIABLES
    \* one call of get_euler_angles on one transform
    eAngles,    \* the Euler angles <<yaw, pitch, roll>> the transform is built from, or <<>>
    eT,         \* the transform handed to get_euler_angles
    eOut,       \* its result
    ePc,        \* "angles", "matrix", "done", or "idle"
    \* one call of generate_camera_angles
    gNumViews,  \* the argument num_views
    gRandom,    \* the argument random
    gYaw,       \* the local arrays yaw, pitch and roll
    gPitch,
    gRoll,
    gOut,       \* the returned array, a sequence of rows <<yaw, pitch, roll>>
    gPc,        \* "start", "generated", "done", "aborted", or "idle"
    \* one run of prepare_for_training
    pSrcFiles,  \* the files under src_dir: a set of paths relative to src_dir
    pMeta,      \* the metadata.json of each collection: model key -> file_path basenames
    pUseRoll,   \* the argument use_roll_angles
    pSaveZip,   \* the argument save_as_zip
    pDstName,   \* the basename of dst_dir
    pJobs,      \* the copy jobs not yet executed: records [src, dst]
    pDst,       \* the files under dst_dir but dataset.json: path -> the source path copied there
    pTransforms,\* the dict transforms: key -> transform matrix
    pAngles,    \* the dict camera_angles: key -> the angles get_euler_angles returned
    pDataset,   \* the contents of dst_dir/dataset.json, or <<>> while there is no such file
    pArchive,   \* the contents of the zip archive, or <<>> while there is none
    pDstExists, \* whether the directory dst_dir exists
    pPc,        \* "start", "copying", "loaded", "extracted", "written", "done", "aborted", or "idle"
    \* one run of filter_models
    fDirs,      \* model_dirs: index -> [col, name, files], files a sequence of [name, alpha]
    fMeta,      \* the metadata.json of the source collections: collection -> object names, or <<>>
    fThresh,    \* opacity_remove_thresh
    fLowFile,   \* low-quality-models.txt: [exists, lines]
    fJobs,      \* the jobs of compute_opacities: index -> [model_dir, index]
    fJobPc,     \* where each job is: "ready", "computed" or "stored"
    fLocal,     \* each job's avg_opacity
    fStorage,   \* the shared list storage
    fOpacities, \* the dict compute_opacities returns, or <<>>
    fCopyJobs,  \* the copytree jobs not yet executed: model paths <<collection, model>>
    fTrgDirs,   \* the collection directories under trg_path
    fTrgMeta,   \* the metadata.json files under trg_path: collection -> object names
    fTrg,       \* the model directories under trg_path
    fPc,        \* "start", "computing", "filtering", "copying", "done", "aborted", or "idle"
    \* one run of export_gltf.run
    xScene,     \* bpy.data.objects: a set of [name, type, parent], parent a name or <<>>
    xDisk,      \* the files under cfg.output_path: a set of paths
    xBefore,    \* the scene and the files as they were when run was called
    xFormat,    \* cfg.export_format
    xDelete,    \* cfg.delete_all_objects_after_save
    xToSave,    \* objects_to_save, a sequence of objects
    xPaths,     \* save_paths, a sequence of paths
    xIdx,       \* the position of the loop under way in objects_to_save
    xExported,  \* the names of the objects exported so far
    xPc,        \* "start", "checking", "saving", "deleting", "done", "aborted", or "idle"
    \* one run of render_dataset.run
    rCfg,       \* cfg: [num_views, random, skip, thresh, scale_wrt_collection, fov]
    rEntries,   \* the entries of cfg.collections_dir: a set of [name, isdir]
    rContents,  \* what each collection directory holds: name -> its files, in sorted order
    rScene,     \* bpy.data.objects: a set of [name, type, dims]
    rQueue,     \* the collection_dirs not yet handed to render_collection
    rCurrent,   \* the collection_dir of the render_collection under way, or <<>>
    rRendered,  \* the collection_dirs render_collection was called on, in order
    rLoaded,    \* the objects load_collection returned, as they are after the scaling
    rObjects,   \* the list objects of render_collection
    rObjIdx,    \* the position of the loop of line 235 in objects
    rAngles,    \* camera_angles of the object under way: a sequence of <<yaw, pitch, roll>>
    rFovs,      \* fovs of the object under way
    rRecords,   \* the list metadata of generate_object_renderings
    rMetadata,  \* the dict metadata of render_collection
    rCamera,    \* the camera: [yaw, pitch, roll, radius, fov], or <<>> when there is none
    rDisk,      \* cfg.output_path: [frames, meta], the frame paths and collection -> metadata.json
    rPc,        \* "start", "next", "load", "scale", "object", "views", "save", "done", "aborted", or "idle"
    \* one run of remove_small_images
    sOpacities, \* tmp.json: [exists, entries], entries a sequence of [model, opacity]
    sThresh,    \* opacity_remove_thresh
    sKept,      \* vals_to_keep
    sPc         \* "start", "done", "aborted", or "idle"

eVars == <<eAngles, eT, eOut, ePc>>
gVars == <<gNumViews, gRandom, gYaw, gPitch, gRoll, gOut, gPc>>

pVars == <<pSrcFiles, pMeta, pUseRoll, pSaveZip, pDstName, pJobs, pDst, pTransforms,
           pAngles, pDataset, pArchive, pDstExists, pPc>>

fVars == <<fDirs, fMeta, fThresh, fLowFile, fJobs, fJobPc, fLocal, fStorage, fOpacities,
           fCopyJobs, fTrgDirs, fTrgMeta, fTrg, fPc>>

xVars == <<xScene, xDisk, xBefore, xFormat, xDelete, xToSave, xPaths, xIdx, xExported, xPc>>

rVars == <<rCfg, rEntries, rContents, rScene, rQueue, rCurrent, rRendered, rLoaded, rObjects,
           rObjIdx, rAngles, rFovs, rRecords, rMetadata, rCamera, rDisk, rPc>>

sVars == <<sOpacities, sThresh, sKept, sPc>>

vars == <<eVars, gVars, pVars, fVars, xVars, rVars, sVars>>

\* The variables of the scripts other than the one named.
notE == <<gVars, pVars, fVars, xVars, rVars, sVars>>
notG == <<eVars, pVars, fVars, xVars, rVars, sVars>>
notP == <<eVars, gVars, fVars, xVars, rVars, sVars>>
notF == <<eVars, gVars, pVars, xVars, rVars, sVars>>
notX == <<eVars, gVars, pVars, fVars, rVars, sVars>>
notR == <<eVars, gVars, pVars, fVars, xVars, sVars>>
notS == <<eVars, gVars, pVars, fVars, xVars, rVars>>

NoValue == <<>>

EulerIdle == eAngles = NoValue /\ eT = NoValue /\ eOut = NoValue /\ ePc = "idle"

AnglesIdle ==
    /\ gNumViews = 0 /\ gRandom = FALSE /\ gPc = "idle"
    /\ gYaw = NoValue /\ gPitch = NoValue /\ gRoll = NoValue /\ gOut = NoValue

PrepareIdle ==
    /\ pSrcFiles = {} /\ pMeta = NoValue /\ pUseRoll = FALSE /\ pSaveZip = FALSE
    /\ pDstName = NoValue /\ pJobs = {} /\ pDst = NoValue /\ pTransforms = NoValue
    /\ pAngles = NoValue
    /\ pDataset = NoValue /\ pArchive = NoValue /\ pDstExists = FALSE /\ pPc = "idle"

FilterIdle ==
    /\ fDirs = NoValue /\ fMeta = NoValue /\ fThresh = 0 /\ fLowFile = NoValue
    /\ fJobs = NoValue /\ fJobPc = NoValue /\ fLocal = NoValue /\ fStorage = NoValue
    /\ fOpacities = NoValue /\ fCopyJobs = {} /\ fTrgDirs = {} /\ fTrgMeta = NoValue
    /\ fTrg = {} /\ fPc = "idle"

ExportIdle ==
    /\ xScene = {} /\ xDisk = {} /\ xBefore = NoValue /\ xFormat = "" /\ xDelete = FALSE
    /\ xToSave = NoValue /\ xPaths = NoValue /\ xIdx = 0 /\ xExported = {} /\ xPc = "idle"

RenderIdle ==
    /\ rCfg = NoValue /\ rEntries = {} /\ rContents = NoValue /\ rScene = {}
    /\ rQueue = NoValue /\ rCurrent = NoValue /\ rRendered = NoValue /\ rLoaded = NoValue
    /\ rObjects = NoValue /\ rObjIdx = 0 /\ rAngles = NoValue /\ rFovs = NoValue
    /\ rRecords = NoValue /\ rMetadata = NoValue /\ rCamera = NoValue /\ rDisk = NoValue
    /\ rPc = "idle"

RemoveIdle == sOpacities = NoValue /\ sThresh = 0 /\ sKept = NoValue /\ sPc = "idle"

\* No script but the one a specification runs is under way.
OthersIdle(running) ==
    /\ running = "euler" \/ EulerIdle
    /\ running = "angles" \/ AnglesIdle
    /\ running = "prepare" \/ PrepareIdle
    /\ running = "filter" \/ FilterIdle
    /\ running = "export" \/ ExportIdle
    /\ running = "render" \/ RenderIdle
    /\ running = "remove" \/ RemoveIdle

(***************************************************************************)
(* SpecEuler: get_euler_angles applied to the transforms of a grid of      *)
(* known angles (the multiples of pi/4, and a roll of 1.5e-5) and to some  *)
(* transforms that are not rotations.                                      *)
(***************************************************************************)
\* A roll of 1.5e-5 rad, just over the 1e-5 tolerance of prepare_for_training.
SmallRoll == 3 * (Unit \div 200000)

YawGrid == {k * QuarterPi : k \in -3..4}
PitchGrid == {k * QuarterPi : k \in -3..4}
RollGrid == {k * QuarterPi : k \in -2..2} \cup {SmallRoll, -SmallRoll}

GridAngles == YawGrid \X PitchGrid \X RollGrid

\* Transforms whose upper-left block is no rotation: the zero block, a scaled and a
\* sheared block, a reflection.  get_euler_angles accepts any 4x4 array.
OtherTransforms ==
    { Transform(<< <<0, 0, 0>>, <<0, 0, 0>>, <<0, 0, 0>> >>, <<0, 0, 0>>),
      Transform(<< <<2 * Unit, 0, 0>>, <<0, 2 * Unit, 0>>, <<0, 0, 2 * Unit>> >>, <<Unit, 0, 0>>),
      Transform(<< <<-Unit, 1, 0>>, <<-1, Unit, 0>>, <<Unit, -3, -2 * Unit>> >>, <<0, Unit, 0>>),
      Transform(<< <<Unit \div 3, Unit, 0>>, <<-Unit, Unit \div 7, 0>>, <<-2 * Unit, -Unit, Unit \div 3>> >>, <<0, 0, Unit>>),
      Transform(<< <<-Unit, 0, 0>>, <<0, 0, Unit>>, <<0, -1, -Unit>> >>, <<0, 0, 0>>) }

EulerInit ==
    /\ OthersIdle("euler")
    /\ eOut = NoValue
    /\ \/ eAngles \in GridAngles /\ eT = NoValue /\ ePc = "angles"
       \/ eAngles = NoValue /\ eT \in OtherTransforms /\ ePc = "matrix"

\* The camera is put at the angles: the transform Rz(yaw) Ry(roll) Rx(pitch).
BuildTransform ==
    /\ ePc = "angles"
    /\ eT' = RotationOf(eAngles[1], eAngles[2], eAngles[3])
    /\ ePc' = "matrix"
    /\ UNCHANGED <<eAngles, eOut, notE>>

\* The call get_euler_angles(T).
ExtractAngles ==
    /\ ePc = "matrix"
    /\ eOut' = get_euler_angles(eT)
    /\ ePc' = "done"
    /\ UNCHANGED <<eAngles, eT, notE>>

EulerNext == BuildTransform \/ ExtractAngles

SpecEuler == EulerInit /\ [][EulerNext]_vars

(***************************************************************************)
(* render_dataset.generate_camera_angles.                                  *)
(***************************************************************************)
\* The only view count of the deterministic grid (line 457), and its rings (line 458).
DetViews == 129
num_steps == 15
\* 1e-6, the distance of the first and the last ring from the poles (line 459).
PoleMargin == 100
\* 1e-8, the distance from the poles the pitch is clipped to (line 463).
ClipEps == 1

\* The most views asked for in random mode.
MaxViews == 2
\* Outputs of np.random.rand, which draws from [0, 1): both ends and the middle.
RandVals == {0, 1, Unit \div 2, Unit - 1}
\* The view counts asked for in deterministic mode.
DetViewCounts == {0, DetViews - 1, DetViews, DetViews + 1}

\* The binade of a >= 0: the power of two 2^e <= a < 2^(e+1), and the spacing
\* 2^(e-23) of the float32 numbers in it, to the whole unit.  Below 1/4 the spacing
\* is under one unit.
F32Binade(a) ==
    IF a >= 4 * Unit THEN [base |-> 4 * Unit, spacing |-> 48]
    ELSE IF a >= 2 * Unit THEN [base |-> 2 * Unit, spacing |-> 24]
    ELSE IF a >= Unit THEN [base |-> Unit, spacing |-> 12]
    ELSE IF a >= Unit \div 2 THEN [base |-> Unit \div 2, spacing |-> 6]
    ELSE IF a >= Unit \div 4 THEN [base |-> Unit \div 4, spacing |-> 3]
    ELSE [base |-> 0, spacing |-> 1]

\* x as a float32 (dtype=np.float32): rounded to the nearest float32 of its binade.
F32(x) ==
    LET b == F32Binade(Abs(x))
        r == b.base + ((Abs(x) - b.base + b.spacing \div 2) \div b.spacing) * b.spacing
    IN  IF x < 0 THEN -r ELSE r

\* int(x): truncation toward zero.
IntTrunc(x) == IF x >= 0 THEN x \div Unit ELSE -((-x) \div Unit)

\* np.linspace(start, stop, num, dtype=np.float32), num >= 1: num evenly spaced
\* samples, the last one stop itself.
Linspace(start, stop, num) ==
    LET div  == num - 1
        step == IF div = 0 THEN 0 ELSE (stop - start + div \div 2) \div div
    IN  [i \in 1..num |-> F32(IF num > 1 /\ i = num THEN stop ELSE start + (i - 1) * step)]

\* np.clip(x, lo, hi).
Clip(x, lo, hi) == Min(Max(x, lo), hi)

\* The number of yaw steps with sin(p) * num_steps rounded instead of truncated.
RingViewsRounded(p) == Max((F32(Sin(p)) * num_steps + Unit \div 2) \div Unit, 1)

\* Line 460: the number of yaw steps of the ring at pitch p.
RingViews(p) == Max(IntTrunc(F32(Sin(p)) * num_steps), 1)

\* The concatenation of a sequence of sequences.
RECURSIVE Flatten(_)
Flatten(ss) == IF ss = <<>> THEN <<>> ELSE Head(ss) \o Flatten(Tail(ss))

\* A yaw that is not shifted down by pi.
RandomYawUnshifted(r) == MulS(2 * r, Pi)

\* Line 453: a yaw from a draw r of np.random.rand.
RandomYaw(r) == MulS(2 * r, Pi) - Pi
\* Line 454: a pitch from a draw r of np.random.rand.
RandomPitch(r) == ArcCos(Unit - 2 * r)

\* Lines 459-460: the pitch of each ring and the yaws of each ring.
RingPitch == Linspace(PoleMargin, Pi - PoleMargin, num_steps)
RingYaw == [i \in 1..num_steps |-> Linspace(0, TwoPi, RingViews(RingPitch[i]))]
\* Lines 461-463: one pitch per view of each ring, clipped; the yaws in a row.
GridPitch ==
    LET rep == Flatten([i \in 1..num_steps |-> [k \in 1..Len(RingYaw[i]) |-> RingPitch[i]]])
    IN  [k \in 1..Len(rep) |-> Clip(rep[k], ClipEps, Pi - ClipEps)]
GridYaw == Flatten(RingYaw)

AnglesInit ==
    /\ OthersIdle("angles")
    /\ gPc = "start"
    /\ gRandom \in BOOLEAN
    /\ gNumViews \in (IF gRandom THEN 0..MaxViews ELSE DetViewCounts)
    /\ gYaw = NoValue /\ gPitch = NoValue /\ gRoll = NoValue /\ gOut = NoValue

\* Lines 453-455: random mode draws num_views yaws and num_views pitches.
GenerateRandom ==
    /\ gPc = "start" /\ gRandom
    /\ \E u \in [1..gNumViews -> RandVals], v \in [1..gNumViews -> RandVals] :
         /\ gYaw' = [i \in 1..gNumViews |-> RandomYaw(u[i])]
         /\ gPitch' = [i \in 1..gNumViews |-> RandomPitch(v[i])]
    /\ gRoll' = [i \in 1..Len(gPitch') |-> 0]
    /\ gPc' = "generated"
    /\ UNCHANGED <<gNumViews, gRandom, gOut, notG>>

\* Lines 457-464: deterministic mode asserts num_views == 129 and builds the grid.
GenerateGrid ==
    /\ gPc = "start" /\ ~gRandom
    /\ IF gNumViews = DetViews
       THEN /\ gPitch' = GridPitch
            /\ gYaw' = GridYaw
            /\ gRoll' = [i \in 1..Len(GridYaw) |-> 0]
            /\ gPc' = "generated"
       ELSE /\ gPc' = "aborted"
            /\ UNCHANGED <<gYaw, gPitch, gRoll>>
    /\ UNCHANGED <<gNumViews, gRandom, gOut, notG>>

\* Lines 466-469: np.stack needs arrays of one shape; the result's shape is asserted.
StackAngles ==
    /\ gPc = "generated"
    /\ IF Len(gYaw) = Len(gPitch) /\ Len(gPitch) = Len(gRoll) /\ Len(gYaw) = gNumViews
       THEN /\ gOut' = [i \in 1..Len(gYaw) |-> <<gYaw[i], gPitch[i], gRoll[i]>>]
            /\ gPc' = "done"
       ELSE /\ gPc' = "aborted"
            /\ UNCHANGED gOut
    /\ UNCHANGED <<gNumViews, gRandom, gYaw, gPitch, gRoll, notG>>

AnglesNext == GenerateRandom \/ GenerateGrid \/ StackAngles

SpecAngles == AnglesInit /\ [][AnglesNext]_vars

(***************************************************************************)
(* Paths.  A file or directory name is a string, modelled as a sequence of *)
(* tokens ("a", "_", "000000", ".png"): concatenating names concatenates   *)
(* the sequences.  A relative path is a sequence of names; the empty path  *)
(* is '' and the empty name is ''.                                         *)
(***************************************************************************)
Last(s) == s[Len(s)]
Front(s) == SubSeq(s, 1, Len(s) - 1)

\* os.path.dirname and os.path.basename.
Dirname(path) == IF path = <<>> THEN <<>> ELSE Front(path)
Basename(path) == IF path = <<>> THEN <<>> ELSE Last(path)

\* The path as one string: its names, separated by "/".
RECURSIVE PathString(_)
PathString(path) ==
    IF path = <<>> THEN <<>>
    ELSE IF Len(path) = 1 THEN path[1]
    ELSE path[1] \o <<"/">> \o PathString(Tail(path))

\* pat in str, and str.endswith(tok).
Contains(str, pat) ==
    \E i \in 1..(Len(str) - Len(pat) + 1) : SubSeq(str, i, i + Len(pat) - 1) = pat
EndsWith(str, tok) == str # <<>> /\ Last(str) = tok

\* utils.remove_root for relative paths (no path here starts with '/').
remove_root(fname, root_name) ==
    IF fname = <<root_name>> THEN <<>>
    ELSE IF Len(fname) > 1 /\ fname[1] = root_name THEN Tail(fname)
    ELSE fname

(***************************************************************************)
(* What render_dataset leaves on disk: per collection a metadata.json and, *)
(* per model, the frames 000000.png, ... with their depth and normal maps. *)
(***************************************************************************)
\* f'{i:06d}' for i = 0, 1, 2.
FrameNames == <<"000000", "000001", "000002">>
Frame(i) == <<FrameNames[i + 1]>>
Png(name) == name \o <<".png">>
DepthOf(name) == name \o <<"_", "depth", "_", "0001", ".exr">>
NormalOf(name) == name \o <<"_", "normal", "_", "0001", ".png">>
MetadataName == <<"metadata", ".json">>

RenderedFiles(c, models, n) ==
    {<<c, MetadataName>>}
    \cup {<<c, m, Png(Frame(i))>> : m \in models, i \in 0..(n - 1)}
    \cup {<<c, m, DepthOf(Frame(i))>> : m \in models, i \in 0..(n - 1)}
    \cup {<<c, m, NormalOf(Frame(i))>> : m \in models, i \in 0..(n - 1)}

\* The file_path entries of a collection's metadata.json, per model.
RenderedMeta(c, models, n) == [m \in models |-> [i \in 1..n |-> <<c, m, Frame(i - 1)>>]]

(***************************************************************************)
(* utils.copy_files with flatten_parent_dir=True.                          *)
(***************************************************************************)
\* The destination without the name of the parent directory in the file name.
FlattenedPathNoParent(filepath) == Dirname(Dirname(filepath)) \o <<Basename(filepath)>>

\* Lines 74-75: the destination of filepath, relative to dst_path.
FlattenedPath(filepath) ==
    LET parent_dir == Dirname(filepath)
    IN  Dirname(parent_dir) \o << Basename(parent_dir) \o <<"_">> \o Basename(filepath) >>

\* prepare_for_training line 27: the files that are not copied.
NotCopied(f) ==
    \/ EndsWith(PathString(f), ".json")
    \/ Contains(PathString(f), <<"_", "depth", "_">>)
    \/ Contains(PathString(f), <<"_", "normal", "_">>)

(***************************************************************************)
(* prepare_for_training.                                                   *)
(***************************************************************************)
\* 1e-5, the tolerance on the mean absolute roll (line 50).
RollTol == 1000
\* 0.1, the least norm of the yaws and of the pitches (lines 51-52).
NormMin == 10000000

\* The most views per model.
MaxFrames == 1

ColA == <<"c1">>
ColB == <<"c2">>
ModelA == <<"a">>
ModelAB == <<"a", "_", "b">>

\* The source directories run on: [files, meta].  The first ones are what
\* render_dataset produces (one collection of two models, two collections, a
\* collection whose objects were all too small); the last three are made by hand: a
\* model directory holding a file that is no frame, a stray top-level file, and a
\* collection named a that holds a frame of its own next to the collection c1.
Layouts ==
    UNION { { [files |-> RenderedFiles(ColA, {ModelA, ModelAB}, n),
               meta  |-> (ColA :> RenderedMeta(ColA, {ModelA, ModelAB}, n))],
              [files |-> RenderedFiles(ColA, {ModelA}, n) \cup RenderedFiles(ColB, {ModelA}, n),
               meta  |-> (ColA :> RenderedMeta(ColA, {ModelA}, n))
                         @@ (ColB :> RenderedMeta(ColB, {ModelA}, n))] } : n \in 1..MaxFrames }
    \cup { [files |-> RenderedFiles(ColA, {}, 0),
            meta  |-> (ColA :> RenderedMeta(ColA, {}, 0))],
           [files |-> {<<ColA, MetadataName>>, <<ColA, ModelAB, Png(Frame(0))>>,
                       <<ColA, ModelA, Png(<<"b", "_">> \o Frame(0))>>},
            meta  |-> (ColA :> ((ModelAB :> << <<ColA, ModelAB, Frame(0)>> >>)
                                @@ (ModelA :> << <<ColA, ModelA, <<"b", "_">> \o Frame(0)>> >>)))],
           [files |-> RenderedFiles(ColA, {ModelA}, 1) \cup {<< <<"notes", ".txt">> >>},
            meta  |-> (ColA :> RenderedMeta(ColA, {ModelA}, 1))],
           [files |-> RenderedFiles(ColA, {ModelA}, 1)
                          \cup {<<ModelA, MetadataName>>, <<ModelA, Png(Frame(0))>>},
            meta  |-> (ColA :> RenderedMeta(ColA, {ModelA}, 1))
                      @@ (ModelA :> RenderedMeta(ModelA, {}, 0))] }

\* The camera transforms found in a metadata.json: the identity rotation, rotations
\* with a negative pitch, with a roll of 1.5e-5 and with a roll of -pi/4, and a
\* matrix that is no rotation.
PrepTransforms ==
    { RotationOf(0, 0, 0),
      RotationOf(-3 * QuarterPi, -QuarterPi, 0),
      RotationOf(QuarterPi, HalfPi, SmallRoll),
      RotationOf(-HalfPi, 3 * QuarterPi, -QuarterPi),
      Transform(<< <<-Unit, 1, 0>>, <<-1, Unit, 0>>, <<Unit, -3, -2 * Unit>> >>, <<0, Unit, 0>>) }

\* The sum of f[x] over the set S.
RECURSIVE SumOver(_, _)
SumOver(S, f) ==
    IF S = {} THEN 0
    ELSE LET x == CHOOSE y \in S : TRUE IN f[x] + SumOver(S \ {x}, f)

\* The sum of the squares of f over S.  Each square and the sum saturate at 4, far
\* above the 0.01 they are compared with, so that the sum fits 32 bits.
SquareCap == 4 * Unit
RECURSIVE SumSquares(_, _)
SumSquares(S, f) ==
    IF S = {} THEN 0
    ELSE LET x == CHOOSE y \in S : TRUE
         IN  Min(Min(MulS(f[x], f[x]), SquareCap) + SumSquares(S \ {x}, f), SquareCap)

\* The assertion on the mean of the rolls, their signs kept.
RollAssertionSigned(angles) ==
    LET keys == DOMAIN angles
    IN  SumOver(keys, [k \in keys |-> angles[k].roll]) < RollTol * Cardinality(keys)

\* Line 50: the assertion on the roll angles, abs(roll).mean() < 1e-5.
RollAssertion(angles) ==
    LET keys == DOMAIN angles
    IN  SumOver(keys, [k \in keys |-> Abs(angles[k].roll)]) < RollTol * Cardinality(keys)

\* Lines 51-56: the assertions on the yaw and pitch angles.
YawPitchAssertions(angles) ==
    LET keys == DOMAIN angles
    IN  /\ Sqrt(SumSquares(keys, [k \in keys |-> angles[k].yaw])) > NormMin
        /\ Sqrt(SumSquares(keys, [k \in keys |-> angles[k].pitch])) > NormMin
        /\ \A k \in keys : angles[k].yaw >= -Pi /\ angles[k].yaw <= Pi
        /\ \A k \in keys : angles[k].pitch >= 0 /\ angles[k].pitch <= Pi

\* Lines 48-56: what is verified when use_roll_angles is not set.
AnglesVerified(angles) == RollAssertion(angles) /\ YawPitchAssertions(angles)

\* The verification skipped whatever use_roll_angles is.
VerificationSkippedAlways(use_roll_angles) == TRUE

\* Line 48: `if not use_roll_angles`, whether lines 49-56 are skipped.
VerificationSkipped(use_roll_angles) == use_roll_angles

\* Line 47: the key of a view in camera_angles, f'{f}.png'.
CameraKey(f) == Front(f) \o <<Png(Last(f))>>

\* Line 72: the condition under which the archive is made.  The code tests `zip`,
\* the builtin function, which is true whatever save_as_zip is.
ArchiveWanted(save_as_zip) == TRUE

Injections(S, T) == {f \in [S -> T] : \A x, y \in S : f[x] = f[y] => x = y}

PrepareInit ==
    /\ OthersIdle("prepare")
    /\ \E l \in Layouts : pSrcFiles = l.files /\ pMeta = l.meta
    /\ pUseRoll \in BOOLEAN
    /\ pSaveZip \in BOOLEAN
    /\ pDstName \in {<<"out">>, ColA}
    /\ pJobs = {} /\ pDst = NoValue /\ pTransforms = NoValue /\ pAngles = NoValue
    /\ pDataset = NoValue /\ pArchive = NoValue /\ pDstExists = FALSE
    /\ pPc = "start"

\* Lines 25-29, and copy_files lines 68-83: dst_dir is made and the copy jobs listed.
StartCopy ==
    /\ pPc = "start"
    /\ pDstExists' = TRUE
    /\ pJobs' = {[src |-> f, dst |-> FlattenedPath(f)] : f \in {g \in pSrcFiles : ~NotCopied(g)}}
    /\ pPc' = "copying"
    /\ UNCHANGED <<pSrcFiles, pMeta, pUseRoll, pSaveZip, pDstName, pDst, pTransforms, pAngles,
                   pDataset, pArchive, notP>>

\* copy_files line 86: the pool runs one more job, shutil.copy(src, dst); any
\* pending job may be the next one to finish.
CopyFile ==
    /\ pPc = "copying"
    /\ \E j \in pJobs :
         /\ pDst' = (j.dst :> j.src) @@ pDst
         /\ pJobs' = pJobs \ {j}
    /\ UNCHANGED <<pSrcFiles, pMeta, pUseRoll, pSaveZip, pDstName, pTransforms, pAngles,
                   pDataset, pArchive, pDstExists, pPc, notP>>

\* Lines 35-44: once the copy is over, the metadata.json of every entry of src_dir
\* is read (a missing one ends the run) and merged into transforms.
LoadMetadata ==
    /\ pPc = "copying" /\ pJobs = {}
    /\ IF \E f \in pSrcFiles : <<f[1], MetadataName>> \notin pSrcFiles
       THEN pPc' = "aborted" /\ UNCHANGED pTransforms
       ELSE LET keys == UNION { UNION { {<<c, m, Basename(pMeta[c][m][i])>> : i \in 1..Len(pMeta[c][m])}
                                        : m \in DOMAIN pMeta[c] } : c \in DOMAIN pMeta }
            IN  /\ pTransforms' \in [keys -> PrepTransforms]
                /\ pPc' = "loaded"
    /\ UNCHANGED <<pSrcFiles, pMeta, pUseRoll, pSaveZip, pDstName, pJobs, pDst, pAngles,
                   pDataset, pArchive, pDstExists, notP>>

\* Line 47: camera_angles, what get_euler_angles returns for every transform, under
\* the key f'{f}.png' (two views with one key leave one entry); a failed assertion
\* of get_euler_angles ends the run.
ExtractCameraAngles ==
    /\ pPc = "loaded"
    /\ IF \E f \in DOMAIN pTransforms : ~get_euler_angles(pTransforms[f]).ok
       THEN pPc' = "aborted" /\ UNCHANGED pAngles
       ELSE /\ pAngles' = [k \in {CameraKey(f) : f \in DOMAIN pTransforms} |->
                             get_euler_angles(pTransforms[CHOOSE f \in DOMAIN pTransforms : CameraKey(f) = k])]
            /\ pPc' = "extracted"
    /\ UNCHANGED <<pSrcFiles, pMeta, pUseRoll, pSaveZip, pDstName, pJobs, pDst, pTransforms,
                   pDataset, pArchive, pDstExists, notP>>

\* Lines 48-67: unless use_roll_angles, the angles are verified; the labels are
\* collected (collect_class_labels, lines 87-102: one integer per parent directory,
\* in the order of a set) and dataset.json is written.  With no view at all the
\* array indexing fails.
VerifyAndWrite ==
    /\ pPc = "extracted"
    /\ LET all_files == DOMAIN pDst
           parents == {Dirname(f) : f \in all_files}
           keys == {remove_root(f, pDstName) : f \in all_files}
       IN  IF \/ DOMAIN pAngles = {}
              \/ ~VerificationSkipped(pUseRoll) /\ ~AnglesVerified(pAngles)
           THEN pPc' = "aborted" /\ UNCHANGED pDataset
           ELSE /\ \E parent2id \in Injections(parents, 0..(Cardinality(parents) - 1)) :
                   \E of \in [keys -> all_files] :
                      /\ \A k \in keys : remove_root(of[k], pDstName) = k
                      /\ pDataset' = [camera_angles |-> [k \in DOMAIN pAngles |->
                                                         <<pAngles[k].yaw, pAngles[k].pitch, pAngles[k].roll>>],
                                      labels |-> [k \in keys |-> parent2id[Dirname(of[k])]]]
                /\ pPc' = "written"
    /\ UNCHANGED <<pSrcFiles, pMeta, pUseRoll, pSaveZip, pDstName, pJobs, pDst, pTransforms,
                   pAngles, pArchive, pDstExists, notP>>

\* Lines 72-74, and store_to_zip: the archive is made and dst_dir removed.
Compress ==
    /\ pPc = "written"
    /\ IF ArchiveWanted(pSaveZip)
       THEN /\ pArchive' = [files |-> pDst, dataset |-> pDataset]
            /\ pDst' = NoValue /\ pDataset' = NoValue /\ pDstExists' = FALSE
       ELSE UNCHANGED <<pArchive, pDst, pDataset, pDstExists>>
    /\ pPc' = "done"
    /\ UNCHANGED <<pSrcFiles, pMeta, pUseRoll, pSaveZip, pDstName, pJobs, pTransforms,
                   pAngles, notP>>

PrepareNext ==
    StartCopy \/ CopyFile \/ LoadMetadata \/ ExtractCameraAngles \/ VerifyAndWrite \/ Compress

SpecPrepare == PrepareInit /\ [][PrepareNext]_vars

(***************************************************************************)
(* filter_models.  The source directory holds collections of model         *)
(* directories; an image is one pixel, its alpha channel a byte.           *)
(***************************************************************************)
\* The greatest value of a channel, the divisor of line 38.
AlphaMax == 255

\* The most model directories under src_path.
MaxModels == 3

\* The model directories there can be, in the order of listdir_full_paths (sorted):
\* [col, name, object], object the name of the rendered object (the key of its
\* metadata), name the directory render_dataset made for it.
AllModelDirs ==
    << [col |-> <<"c1">>, name |-> <<"m1">>, object |-> <<"m1">>],
       [col |-> <<"c1">>, name |-> <<"m", "_", "2">>, object |-> <<"m", " ", "2">>],
       [col |-> <<"c2">>, name |-> <<"m1">>, object |-> <<"m1">>],
       [col |-> <<"c2">>, name |-> <<"m", "_", "2">>, object |-> <<"m", " ", "2">>] >>

\* What a model directory can hold: an opaque frame with its normal and depth
\* maps; two frames that average one half; a transparent frame; no frame at all.
ModelContents ==
    { << [name |-> Png(Frame(0)), alpha |-> 255], [name |-> NormalOf(Frame(0)), alpha |-> 0],
         [name |-> DepthOf(Frame(0)), alpha |-> 0] >>,
      << [name |-> Png(Frame(0)), alpha |-> 127], [name |-> Png(Frame(1)), alpha |-> 128],
         [name |-> NormalOf(Frame(0)), alpha |-> 255] >>,
      << [name |-> Png(Frame(0)), alpha |-> 0] >>,
      << [name |-> NormalOf(Frame(0)), alpha |-> 255] >> }

\* The thresholds a run is given.
FilterThresholds == {0, Unit \div 2, Unit}

\* The low-quality-models.txt files: listing m_2 under a comment; m1 commented out;
\* no file.  The text ends with a newline, so its last line is empty.
LowQualityFiles ==
    { [exists |-> TRUE, lines |-> << <<"#", " ", "inspected">>, <<"m", "_", "2">>, <<>> >>],
      [exists |-> TRUE, lines |-> << <<"#", "m1">>, <<>> >>],
      [exists |-> FALSE, lines |-> <<>>] }

\* The path of a model directory relative to src_path, and of a file in it.
ModelPath(dir) == <<dir.col, dir.name>>
FilePath(dir, file) == <<dir.col, dir.name, file.name>>

\* The index handed to the last job, whatever the job.
JobIndexLast(i, n) == n - 1

\* Line 27: the index handed to the job of the i-th model directory (of n).
JobIndex(i, n) == i

\* Line 37: the images averaged, the .png files without 'normal' in their path.
OpacityImages(dir) ==
    SelectSeq(dir.files, LAMBDA file :
        /\ EndsWith(PathString(FilePath(dir, file)), ".png")
        /\ ~Contains(PathString(FilePath(dir, file)), <<"normal">>))

\* The sum of the sequence of numbers.
RECURSIVE SumSeq(_)
SumSeq(xs) == IF xs = <<>> THEN 0 ELSE Head(xs) + SumSeq(Tail(xs))

\* Lines 38-39: the mean of the alpha channel, each value divided by 255.
MeanOpacity(imgs) ==
    (SumSeq([k \in 1..Len(imgs) |-> DivS(imgs[k].alpha, AlphaMax)]) + Len(imgs) \div 2) \div Len(imgs)

\* An opacity strictly above the threshold.
AboveThreshold(opacity, thresh) == opacity > thresh

\* Line 91: whether a model of this opacity is kept.
KeptByOpacity(opacity, thresh) == opacity >= thresh

\* Line 98: the set low_quality_models, the lines that do not start with '#'.
LowQualityModels(lines) ==
    {lines[k] : k \in {j \in 1..Len(lines) : ~(lines[j] # <<>> /\ lines[j][1] = "#")}}

FilterInit ==
    /\ OthersIdle("filter")
    /\ \E n \in 0..Min(MaxModels, Len(AllModelDirs)) :
         /\ \E contents \in [0..(n - 1) -> ModelContents] :
              fDirs = [i \in 0..(n - 1) |->
                         [col |-> AllModelDirs[i + 1].col, name |-> AllModelDirs[i + 1].name,
                          files |-> contents[i]]]
         /\ \E without \in {{}, {<<"c2">>}} :
              fMeta = [c \in {AllModelDirs[i].col : i \in 1..n} \ without |->
                         {AllModelDirs[i].object : i \in {j \in 1..n : AllModelDirs[j].col = c}}]
    /\ fThresh \in FilterThresholds
    /\ fLowFile \in LowQualityFiles
    /\ fJobs = NoValue /\ fJobPc = NoValue /\ fLocal = NoValue /\ fStorage = NoValue
    /\ fOpacities = NoValue /\ fCopyJobs = {} /\ fTrgDirs = {} /\ fTrgMeta = NoValue
    /\ fTrg = {} /\ fPc = "start"

\* compute_opacities lines 20-27: the shared list is allocated and the jobs made.
StartOpacities ==
    /\ fPc = "start"
    /\ LET n == Cardinality(DOMAIN fDirs)
       IN  /\ fStorage' = [i \in 0..(n - 1) |-> 0]
           /\ fJobs' = [i \in 0..(n - 1) |-> [model_dir |-> i, index |-> JobIndex(i, n)]]
           /\ fJobPc' = [i \in 0..(n - 1) |-> "ready"]
           /\ fLocal' = [i \in 0..(n - 1) |-> NoValue]
    /\ fPc' = "computing"
    /\ UNCHANGED <<fDirs, fMeta, fThresh, fLowFile, fOpacities, fCopyJobs, fTrgDirs,
                   fTrgMeta, fTrg, notF>>

\* compute_average_opacity lines 37-39, in one of the workers: the images of the
\* job's directory are averaged; with no image the indexing fails and so the run.
ComputeAverage ==
    /\ fPc = "computing"
    /\ \E j \in DOMAIN fJobs :
         /\ fJobPc[j] = "ready"
         /\ LET imgs == OpacityImages(fDirs[fJobs[j].model_dir])
            IN  IF imgs = <<>>
                THEN fPc' = "aborted" /\ UNCHANGED <<fLocal, fJobPc>>
                ELSE /\ fLocal' = [fLocal EXCEPT ![j] = MeanOpacity(imgs)]
                     /\ fJobPc' = [fJobPc EXCEPT ![j] = "computed"]
                     /\ UNCHANGED fPc
    /\ UNCHANGED <<fDirs, fMeta, fThresh, fLowFile, fJobs, fStorage, fOpacities, fCopyJobs,
                   fTrgDirs, fTrgMeta, fTrg, notF>>

\* compute_average_opacity line 40: storage[index] = avg_opacity.
StoreAverage ==
    /\ fPc = "computing"
    /\ \E j \in DOMAIN fJobs :
         /\ fJobPc[j] = "computed"
         /\ fStorage' = [fStorage EXCEPT ![fJobs[j].index] = fLocal[j]]
         /\ fJobPc' = [fJobPc EXCEPT ![j] = "stored"]
    /\ UNCHANGED <<fDirs, fMeta, fThresh, fLowFile, fJobs, fLocal, fOpacities, fCopyJobs,
                   fTrgDirs, fTrgMeta, fTrg, fPc, notF>>

\* compute_opacities lines 30-32: every job is over and the dict is returned.
CollectOpacities ==
    /\ fPc = "computing"
    /\ \A j \in DOMAIN fJobs : fJobPc[j] = "stored"
    /\ fOpacities' = [m \in {ModelPath(fDirs[i]) : i \in DOMAIN fDirs} |->
                        fStorage[CHOOSE i \in DOMAIN fDirs : ModelPath(fDirs[i]) = m]]
    /\ fPc' = "filtering"
    /\ UNCHANGED <<fDirs, fMeta, fThresh, fLowFile, fJobs, fJobPc, fLocal, fStorage, fCopyJobs,
                   fTrgDirs, fTrgMeta, fTrg, notF>>

\* filter_models lines 91-109 and copy_collections lines 50-75: the models are
\* filtered by opacity (with no model at all the ratio divides by zero), then by
\* the low-quality list (read from a file that may not exist); per collection with
\* a model to copy the directory is made and the metadata filtered and saved (a
\* collection without metadata.json ends the run, after any of the others), and
\* the copytree jobs are listed.
SelectModels ==
    /\ fPc = "filtering"
    /\ LET by_opacity == {m \in DOMAIN fOpacities : KeptByOpacity(fOpacities[m], fThresh)}
           low_quality_models == LowQualityModels(fLowFile.lines)
           models_to_copy == {m \in by_opacity : Basename(m) \notin low_quality_models}
           col2models == [c \in {m[1] : m \in models_to_copy} |->
                            {m[2] : m \in {k \in models_to_copy : k[1] = c}}]
           new_metadata(c) == {o \in fMeta[c] : o \in col2models[c]}
           missing == {c \in DOMAIN col2models : c \notin DOMAIN fMeta}
       IN  IF DOMAIN fOpacities = {} \/ ~fLowFile.exists
           THEN /\ fPc' = "aborted"
                /\ UNCHANGED <<fCopyJobs, fTrgDirs, fTrgMeta>>
           ELSE IF missing # {}
           THEN /\ fPc' = "aborted"
                /\ \E bad \in missing : \E before \in SUBSET (DOMAIN col2models \ missing) :
                     /\ fTrgDirs' = before \cup {bad}
                     /\ fTrgMeta' = [c \in before |-> new_metadata(c)]
                /\ UNCHANGED fCopyJobs
           ELSE /\ fTrgDirs' = DOMAIN col2models
                /\ fTrgMeta' = [c \in DOMAIN col2models |-> new_metadata(c)]
                /\ fCopyJobs' = models_to_copy
                /\ fPc' = "copying"
    /\ UNCHANGED <<fDirs, fMeta, fThresh, fLowFile, fJobs, fJobPc, fLocal, fStorage, fOpacities,
                   fTrg, notF>>

\* copy_collections line 78: the pool runs one more job, shutil.copytree(src, dst).
CopyModel ==
    /\ fPc = "copying"
    /\ \E m \in fCopyJobs :
         /\ fTrg' = fTrg \cup {m}
         /\ fCopyJobs' = fCopyJobs \ {m}
    /\ UNCHANGED <<fDirs, fMeta, fThresh, fLowFile, fJobs, fJobPc, fLocal, fStorage, fOpacities,
                   fTrgDirs, fTrgMeta, fPc, notF>>

\* copy_collections line 78 returns: every job has run.
FinishCopy ==
    /\ fPc = "copying" /\ fCopyJobs = {}
    /\ fPc' = "done"
    /\ UNCHANGED <<fDirs, fMeta, fThresh, fLowFile, fJobs, fJobPc, fLocal, fStorage, fOpacities,
                   fCopyJobs, fTrgDirs, fTrgMeta, fTrg, notF>>

FilterNext ==
    StartOpacities \/ ComputeAverage \/ StoreAverage \/ CollectOpacities \/ SelectModels
        \/ CopyModel \/ FinishCopy

SpecFilter == FilterInit /\ [][FilterNext]_vars

(***************************************************************************)
(* export_gltf.run.  The exporter of Blender writes the file named by      *)
(* filepath with the extension of the format.                              *)
(***************************************************************************)
\* The most files under output_path before the run.
MaxFiles == 1

\* cfg.exclude_types (line 53) and the formats save_object accepts (line 92).
exclude_types == {"CAMERA", "LIGHT", "EMPTY"}
AcceptedFormats == {"GLB", "GLTF_EMBEDDED"}
\* The formats a run is configured with.
ExportFormats == {"GLB", "GLTF_EMBEDDED", "GLTF_SEPARATE"}

Obj(name, type, parent) == [name |-> name, type |-> type, parent |-> parent]

\* The scenes run on: a mesh beside a camera and a light; a mesh under an empty and
\* a mesh at the top; a camera alone; a mesh named cube beside one named cube.glb.
Scenes ==
    { { Obj(<<"cube">>, "MESH", <<>>), Obj(<<"cam">>, "CAMERA", <<>>), Obj(<<"lamp">>, "LIGHT", <<>>) },
      { Obj(<<"root">>, "EMPTY", <<>>), Obj(<<"leaf">>, "MESH", <<"root">>), Obj(<<"cube">>, "MESH", <<>>) },
      { Obj(<<"cam">>, "CAMERA", <<>>) },
      { Obj(<<"cube">>, "MESH", <<>>), Obj(<<"cube", ".glb">>, "MESH", <<>>) } }

\* Lines 79-86: the path of names from the top of the hierarchy to the object.
RECURSIVE get_object_col_path(_, _)
get_object_col_path(scene, obj) ==
    IF obj.parent = <<>> THEN <<obj.name>>
    ELSE get_object_col_path(scene, CHOOSE o \in scene : o.name = obj.parent) \o <<obj.name>>

\* Line 63: save_ext.
SaveExt(export_format) == IF export_format = "GLB" THEN ".glb" ELSE ".gltf"

\* The path p with ext appended to its last name: p + ext.
WithExt(p, ext) == Front(p) \o <<Last(p) \o <<ext>>>>

\* The file looked for being the save path itself, without the extension.
CheckedFileNoExt(p, save_ext) == p

\* Line 67: the file that must not exist, p + save_ext.
CheckedFile(p, save_ext) == WithExt(p, save_ext)

\* The files there can be before the run: for every object of the scene its save
\* path, alone and with either extension.
CandidateFiles(scene) ==
    UNION { { get_object_col_path(scene, o),
              WithExt(get_object_col_path(scene, o), ".glb"),
              WithExt(get_object_col_path(scene, o), ".gltf") } : o \in scene }

\* The sequences that hold each element of S once.
Orderings(S) ==
    {q \in [1..Cardinality(S) -> S] : \A i, j \in 1..Cardinality(S) : q[i] = q[j] => i = j}

ExportInit ==
    /\ OthersIdle("export")
    /\ xScene \in Scenes
    /\ xDisk \in {d \in SUBSET CandidateFiles(xScene) : Cardinality(d) <= MaxFiles}
    /\ xBefore = [scene |-> xScene, disk |-> xDisk]
    /\ xFormat \in ExportFormats
    /\ xDelete \in BOOLEAN
    /\ xToSave = NoValue /\ xPaths = NoValue /\ xIdx = 0 /\ xExported = {}
    /\ xPc = "start"

\* Lines 61-63: the objects to save, in the order of bpy.data.objects, and their paths.
ListObjects ==
    /\ xPc = "start"
    /\ \E order \in Orderings({o \in xScene : o.type \notin exclude_types}) :
         /\ xToSave' = order
         /\ xPaths' = [i \in 1..Len(order) |-> get_object_col_path(xScene, order[i])]
    /\ xIdx' = 1
    /\ xPc' = "checking"
    /\ UNCHANGED <<xScene, xDisk, xBefore, xFormat, xDelete, xExported, notX>>

\* Lines 65-67: one round of the first loop, the assertion on the output file.
CheckObject ==
    /\ xPc = "checking" /\ xIdx <= Len(xToSave)
    /\ IF CheckedFile(xPaths[xIdx], SaveExt(xFormat)) \in xDisk
       THEN xPc' = "aborted" /\ UNCHANGED xIdx
       ELSE xIdx' = xIdx + 1 /\ UNCHANGED xPc
    /\ UNCHANGED <<xScene, xDisk, xBefore, xFormat, xDelete, xToSave, xPaths, xExported, notX>>

\* Line 68: the first loop is over and the second one starts.
StartSaving ==
    /\ xPc = "checking" /\ xIdx > Len(xToSave)
    /\ xIdx' = 1
    /\ xPc' = "saving"
    /\ UNCHANGED <<xScene, xDisk, xBefore, xFormat, xDelete, xToSave, xPaths, xExported, notX>>

\* Lines 68-69, and save_object lines 91-97: one round of the second loop; the two
\* assertions, then the export of the object to save_path.  The exporter may
\* raise, with or without the file written; the exception ends the run.
SaveObject ==
    /\ xPc = "saving" /\ xIdx <= Len(xToSave)
    /\ IF xPaths[xIdx] \in xDisk \/ xFormat \notin AcceptedFormats
       THEN xPc' = "aborted" /\ UNCHANGED <<xDisk, xExported, xIdx>>
       ELSE \/ /\ xDisk' = xDisk \cup {WithExt(xPaths[xIdx], SaveExt(xFormat))}
               /\ xExported' = xExported \cup {xToSave[xIdx].name}
               /\ xIdx' = xIdx + 1
               /\ UNCHANGED xPc
            \/ /\ xDisk' \in {xDisk, xDisk \cup {WithExt(xPaths[xIdx], SaveExt(xFormat))}}
               /\ xPc' = "aborted"
               /\ UNCHANGED <<xExported, xIdx>>
    /\ UNCHANGED <<xScene, xBefore, xFormat, xDelete, xToSave, xPaths, notX>>

\* The objects of the excluded types left in the scene.
SceneAfterSaveOfSaved(scene, delete_all_objects_after_save) ==
    IF delete_all_objects_after_save THEN {o \in scene : o.type \in exclude_types} ELSE scene

\* Lines 72-74, and delete_all_objects lines 181-183: every object of
\* bpy.data.objects is removed if cfg.delete_all_objects_after_save.
SceneAfterSave(scene, delete_all_objects_after_save) ==
    IF delete_all_objects_after_save THEN {} ELSE scene

\* Lines 70-75: the second loop is over; the objects are deleted if asked.
FinishExport ==
    /\ xPc = "saving" /\ xIdx > Len(xToSave)
    /\ xScene' = SceneAfterSave(xScene, xDelete)
    /\ xPc' = "done"
    /\ UNCHANGED <<xDisk, xBefore, xFormat, xDelete, xToSave, xPaths, xIdx, xExported, notX>>

ExportNext == ListObjects \/ CheckObject \/ StartSaving \/ SaveObject \/ FinishExport

SpecExport == ExportInit /\ [][ExportNext]_vars

(***************************************************************************)
(* render_dataset.run.  An object of the Blender scene is [name, type,     *)
(* dims], dims its three dimensions in tenths of a unit of length; names   *)
(* are unique in a scene, as Blender keeps them.  A collection directory   *)
(* holds files; importing a model file adds its objects to the scene.      *)
(***************************************************************************)
\* One unit of length, in the tenths the dimensions are counted in.
DimUnit == 10

\* The most views rendered per object (cfg.num_views).
MaxRenderViews == 2

SceneObject(name, type, dims) == [name |-> name, type |-> type, dims |-> dims]

NoDims == <<0, 0, 0>>
Camera == SceneObject(<<"Camera">>, "CAMERA", NoDims)

\* The scenes run starts from: the camera alone, the scene Blender starts with,
\* a light alone, nothing, and two cameras.
InitialScenes ==
    { {Camera},
      {Camera, SceneObject(<<"Light">>, "LIGHT", NoDims),
               SceneObject(<<"Cube">>, "MESH", <<2 * DimUnit, 2 * DimUnit, 2 * DimUnit>>)},
      {SceneObject(<<"Light">>, "LIGHT", NoDims)},
      {},
      {Camera, SceneObject(<<"Camera", ".001">>, "CAMERA", NoDims)} }

\* The names an entry of collections_dir can have, in the order sorted() puts
\* them in; sorted(os.listdir(d)) is this sequence without the names d lacks.
EntryNames == << <<"c1">>, <<"c2">>, <<"c3">>, <<"c4">>, <<"readme", ".txt">> >>

SortedNames(names) == SelectSeq(EntryNames, LAMBDA n : n \in names)

\* A file of a collection directory: its name, its extension and the objects
\* importing it adds to the scene.
ModelFile(name, ext, objects) == [name |-> name, ext |-> ext, objects |-> objects]

\* What the collection directories hold, each listed in sorted order:
\*   c1  one model, a cube, imported with an empty parent;
\*   c2  a flat model "m 2" (4 x 4 x 2) imported with a dummy mesh node, a thin
\*       model "m_2" (8 x 2 x 2), a model that is not of LOD0 and a text file;
\*   c3  one thin model;
\*   c4  no model file.
CollectionFiles ==
    (<<"c1">> :> << ModelFile(<<"m1", "_", "LOD0">>, ".glb",
                       { SceneObject(<<"m1">>, "MESH", <<4 * DimUnit, 4 * DimUnit, 4 * DimUnit>>),
                         SceneObject(<<"world">>, "EMPTY", NoDims) }) >>)
    @@ (<<"c2">> :> << ModelFile(<<"a", "_", "LOD0">>, ".glb",
                          { SceneObject(<<"m", " ", "2">>, "MESH", <<4 * DimUnit, 4 * DimUnit, 2 * DimUnit>>),
                            SceneObject(<<"Node", ".001">>, "MESH", <<DimUnit, DimUnit, DimUnit>>) }),
                       ModelFile(<<"b", "_", "lod0">>, ".glb",
                          { SceneObject(<<"m", "_", "2">>, "MESH", <<8 * DimUnit, 2 * DimUnit, 2 * DimUnit>>) }),
                       ModelFile(<<"b", "_", "LOD1">>, ".glb",
                          { SceneObject(<<"m3">>, "MESH", <<DimUnit, DimUnit, DimUnit>>) }),
                       ModelFile(<<"notes", "_", "lod0">>, ".txt", {}) >>)
    @@ (<<"c3">> :> << ModelFile(<<"t", "_", "LOD0">>, ".glb",
                          { SceneObject(<<"t">>, "MESH", <<8 * DimUnit, 2 * DimUnit, 2 * DimUnit>>) }) >>)
    @@ (<<"c4">> :> << ModelFile(<<"notes">>, ".txt", {}) >>)

\* The listings of collections_dir the runs are given.
Listings ==
    { {<<"c1">>, <<"c2">>, <<"c3">>, <<"readme", ".txt">>},
      {<<"c1">>, <<"c4">>, <<"c2">>},
      {<<"c2">>, <<"c3">>},
      {<<"c3">>},
      {} }

\* cfg.camera.radius, 3.5, and the mean of cfg.camera.fov, pi / 4 (its std is 0).
CameraRadius == 7 * (Unit \div 2)
FovMean == QuarterPi

\* cfg.small_objects_filter_thresh: 0.0 and the 2.0 of the script.
SmallThresholds == {0, 2 * DimUnit}

\* The values cfg.collections_skip_up_to is given; <<>> stands for the key not
\* being in cfg, and no entry is named c9.
SkipValues == {NoValue, <<"c2">>, <<"c9">>}

\* The draws of np.random.rand for the yaw and the pitch of one view.
ViewDraws == { <<0, Unit \div 2>>, <<Unit \div 2, Unit - 1>> }

\* o.name.replace(' ', '_').
Underscored(name) == [k \in 1..Len(name) |-> IF name[k] = " " THEN "_" ELSE name[k]]

\* Whether name.startswith(tok).
StartsWith(name, tok) == name # <<>> /\ name[1] = tok

\* rotate_camera lines 503-507: the location of the camera.
CameraLocation(yaw, pitch, radius) ==
    << MulS(radius, MulS(Sin(pitch), Cos(yaw))),
       MulS(radius, MulS(Sin(pitch), Sin(yaw))),
       MulS(radius, Cos(pitch)) >>

\* The transform T with the origin o.
WithOrigin(T, o) ==
    [i \in 1..4 |-> IF i < 4 THEN SubSeq(T[i], 1, 3) \o <<o[i]>> ELSE T[i]]

\* matrix_world of the camera put by rotate_camera (lines 508-512): it looks at the
\* origin along its -Z with its Y up, which is the rotation Rz(yaw + pi/2) Rx(pitch).
CameraMatrix(cam) ==
    WithOrigin(RotationOf(cam.yaw + HalfPi, cam.pitch, cam.roll),
               CameraLocation(cam.yaw, cam.pitch, cam.radius))

\* rotate_camera lines 491-515: the camera after the call.
rotate_camera(yaw, pitch, roll, fov, radius) ==
    [yaw |-> yaw, pitch |-> pitch, roll |-> roll, radius |-> radius, fov |-> fov]

\* sample_bounded_scalar lines 531-533 for cfg.camera.fov: the mean, batch_size times.
sample_bounded_scalar(fov, batch_size) == [i \in 1..batch_size |-> fov.mean]

RenderInit ==
    /\ OthersIdle("render")
    /\ \E num_views \in 1..MaxRenderViews : \E random, scale \in BOOLEAN :
       \E skip \in SkipValues : \E thresh \in SmallThresholds :
         rCfg = [num_views |-> num_views, random |-> random, skip |-> skip, thresh |-> thresh,
                 scale_wrt_collection |-> scale,
                 fov |-> [dist |-> "normal", mean |-> FovMean, std |-> 0]]
    /\ \E names \in Listings :
         /\ rEntries = {[name |-> n, isdir |-> n \in DOMAIN CollectionFiles] : n \in names}
         /\ rContents = [n \in names \cap DOMAIN CollectionFiles |-> CollectionFiles[n]]
    /\ rScene \in InitialScenes
    /\ rCamera = IF Camera \in rScene THEN rotate_camera(0, 0, 0, FovMean, 0) ELSE NoValue
    /\ rQueue = NoValue /\ rCurrent = NoValue /\ rRendered = <<>> /\ rLoaded = NoValue
    /\ rObjects = NoValue /\ rObjIdx = 0 /\ rAngles = NoValue /\ rFovs = NoValue
    /\ rRecords = NoValue /\ rMetadata = NoValue
    /\ rDisk = [frames |-> {}, meta |-> <<>>]
    /\ rPc = "start"

\* The collections after the pivot, the pivot left out.
SkippedPast(collection_dirs, pivot_col_idx) ==
    SubSeq(collection_dirs, pivot_col_idx + 1, Len(collection_dirs))

\* run line 167: collection_dirs[pivot_col_idx:], pivot_col_idx counted from 1.
SkippedUpTo(collection_dirs, pivot_col_idx) ==
    SubSeq(collection_dirs, pivot_col_idx, Len(collection_dirs))

\* run lines 162-168: the sub-directories of collections_dir in sorted order, from
\* the one named collections_skip_up_to on if the key is set; if no entry has that
\* name the indexing [0] fails.
ListCollections ==
    /\ rPc = "start"
    /\ LET collection_dirs == SortedNames({e.name : e \in {d \in rEntries : d.isdir}})
           pivots == {i \in 1..Len(collection_dirs) : collection_dirs[i] = rCfg.skip}
       IN  IF rCfg.skip = NoValue
           THEN rQueue' = collection_dirs /\ rPc' = "next"
           ELSE IF pivots = {}
           THEN rQueue' = collection_dirs /\ rPc' = "aborted"
           ELSE /\ rQueue' = SkippedUpTo(collection_dirs,
                                         CHOOSE i \in pivots : \A j \in pivots : i <= j)
                /\ rPc' = "next"
    /\ UNCHANGED <<rCfg, rEntries, rContents, rScene, rCurrent, rRendered, rLoaded, rObjects,
                   rObjIdx, rAngles, rFovs, rRecords, rMetadata, rCamera, rDisk, notR>>

\* run lines 180-184 and render_collection lines 190-203: the next collection is
\* handed to render_collection, which, unless the scene holds exactly one object,
\* deletes the objects that are no camera, and asserts that one object is left.
\* The loop removes objects from the collection it iterates over, so which of the
\* objects it visits is not determined: any of them may be left behind.
CleanScene ==
    /\ rPc = "next" /\ rQueue # <<>>
    /\ rCurrent' = Head(rQueue)
    /\ rQueue' = Tail(rQueue)
    /\ rRendered' = Append(rRendered, Head(rQueue))
    /\ \E visited \in SUBSET {o \in rScene : o.type # "CAMERA"} :
         /\ rScene' = IF Cardinality(rScene) # 1 THEN rScene \ visited ELSE rScene
         /\ rPc' = IF Cardinality(rScene') = 1 THEN "load" ELSE "aborted"
    /\ UNCHANGED <<rCfg, rEntries, rContents, rLoaded, rObjects, rObjIdx, rAngles, rFovs,
                   rRecords, rMetadata, rCamera, rDisk, notR>>

\* str.lower() on a name of these directories.
Lowered(name) ==
    [k \in 1..Len(name) |-> IF name[k] = "LOD0" THEN "lod0"
                            ELSE IF name[k] = "LOD1" THEN "lod1" ELSE name[k]]

\* load_collection lines 401-402: the files imported, those with the extension
\* cfg.model_ext ('.glb') and 'lod0' in their lowered path.
Lod0Files(files) ==
    SelectSeq(files, LAMBDA f : f.ext = ".glb" /\ Contains(Lowered(f.name), <<"lod0">>))

\* load_collection line 410: whether an imported object is a dummy.
IsDummy(o) == StartsWith(o.name, "Node") \/ o.type = "EMPTY"

\* The objects of the set in a sequence, as bpy.data.objects lists them.
RECURSIVE ListOf(_)
ListOf(S) ==
    IF S = {} THEN <<>>
    ELSE LET o == CHOOSE x \in S : TRUE IN <<o>> \o ListOf(S \ {o})

\* load_collection lines 405-414: the objects kept of the files imported in turn.
RECURSIVE LoadedObjects(_)
LoadedObjects(files) ==
    IF files = <<>> THEN <<>>
    ELSE ListOf({o \in Head(files).objects : ~IsDummy(o)}) \o LoadedObjects(Tail(files))

\* The elements of a sequence.
Range(s) == {s[k] : k \in 1..Len(s)}

\* render_collection line 206, load_collection lines 400-419: the model files of
\* LOD0 are imported, the dummy objects that came with them and every empty object
\* deleted; line 207 asserts that some object was loaded.
LoadCollection ==
    /\ rPc = "load"
    /\ LET objects == LoadedObjects(Lod0Files(rContents[rCurrent]))
       IN  /\ rScene' = {o \in rScene \cup Range(objects) : o.type # "EMPTY"}
           /\ rLoaded' = objects
           /\ rPc' = IF Len(objects) > 0 THEN "scale" ELSE "aborted"
    /\ UNCHANGED <<rCfg, rEntries, rContents, rQueue, rCurrent, rRendered, rObjects, rObjIdx,
                   rAngles, rFovs, rRecords, rMetadata, rCamera, rDisk, notR>>

\* max(o.dimensions) and np.prod(o.dimensions).
MaxDimension(o) == Max(Max(o.dims[1], o.dims[2]), o.dims[3])
ProdDimensions(o) == o.dims[1] * o.dims[2] * o.dims[3]

\* max(scales), line 217.
RECURSIVE MaxOfSeq(_)
MaxOfSeq(xs) == IF xs = <<>> THEN 0 ELSE Max(Head(xs), MaxOfSeq(Tail(xs)))

\* normalize_object line 344 with scale = 2.0 / denom: the object scaled.
Normalized(o, denom) ==
    [o EXCEPT !.dims = [i \in 1..3 |-> (o.dims[i] * 2 * DimUnit) \div denom]]

\* filter_small_objects line 311: whether the object is removed,
\* np.prod(o.dimensions) < threshold.
TooSmall(o, threshold) == ProdDimensions(o) < threshold * DimUnit * DimUnit

\* filter_small_objects lines 304-317: the objects returned.
filter_small_objects(objects, threshold) ==
    IF threshold = 0 THEN objects
    ELSE SelectSeq(objects, LAMBDA o : ~TooSmall(o, threshold))

\* render_collection lines 211-231: init_camera looks the camera up by its name
\* (there may be none); every object is scaled to the size 2.0, by its own largest
\* dimension or by the largest of the collection (a largest dimension of zero
\* divides by zero); the objects that are too small are deleted from the scene.
ScaleAndFilter ==
    /\ rPc = "scale"
    /\ LET scales == [k \in 1..Len(rLoaded) |-> MaxDimension(rLoaded[k])]
           denom(k) == IF rCfg.scale_wrt_collection THEN MaxOfSeq(scales) ELSE scales[k]
       IN  IF Camera \notin rScene \/ \E k \in 1..Len(rLoaded) : denom(k) = 0
           THEN /\ rPc' = "aborted"
                /\ UNCHANGED <<rScene, rLoaded, rObjects, rObjIdx, rMetadata, rCamera>>
           ELSE LET scaled == [k \in 1..Len(rLoaded) |-> Normalized(rLoaded[k], denom(k))]
                    kept == filter_small_objects(scaled, rCfg.thresh)
                IN  /\ rCamera' = rotate_camera(0, HalfPi, 0, QuarterPi, CameraRadius)
                    /\ rLoaded' = scaled
                    /\ rObjects' = kept
                    /\ rScene' = (rScene \ Range(rLoaded)) \cup Range(kept)
                    /\ rObjIdx' = 1
                    /\ rMetadata' = <<>>
                    /\ rPc' = "object"
    /\ UNCHANGED <<rCfg, rEntries, rContents, rQueue, rCurrent, rRendered, rAngles, rFovs,
                   rRecords, rDisk, notR>>

\* generate_camera_angles as called at line 240: whether its assertion on num_views
\* passes, and the arrays it can return (drawn when random, else the grid).
AnglesAccepted(num_views, random) == random \/ num_views = DetViews

CameraAngleArrays(num_views, random) ==
    IF random
    THEN {[i \in 1..num_views |-> <<RandomYaw(d[i][1]), RandomPitch(d[i][2]), 0>>] :
             d \in [1..num_views -> ViewDraws]}
    ELSE {[i \in 1..Len(GridYaw) |-> <<GridYaw[i], GridPitch[i], 0>>]}

\* The directory of an object's renderings and the path of its i-th view, both
\* relative to cfg.output_path (lines 205, 238 and 266).
CollectionName(collection_dir) == Underscored(collection_dir)
SaveDir(collection_dir, o) == <<CollectionName(collection_dir), Underscored(o.name)>>

\* The path of the view numbered from one.
SavePathFromOne(save_dir, i) == save_dir \o <<Frame(i + 1)>>

\* Line 266: os.path.join(save_dir, f'{i:06d}').
SavePath(save_dir, i) == save_dir \o <<Frame(i)>>

\* render_current_view line 282: the files the render of save_path writes.
RenderOutputs(save_path) ==
    { Front(save_path) \o <<Png(Last(save_path))>>,
      Front(save_path) \o <<DepthOf(Last(save_path))>>,
      Front(save_path) \o <<NormalOf(Last(save_path))>> }

\* render_current_view line 282: what a render that raises leaves on disk, none,
\* one or all of its files.
FailedOutputs(save_path) ==
    { {}, {Front(save_path) \o <<Png(Last(save_path))>>}, RenderOutputs(save_path) }

\* render_current_view lines 284-290: frame_data, read off the camera after the render.
FrameData(save_path, angles, fov, radius, cam) ==
    [file_path |-> save_path, transform_matrix |-> CameraMatrix(cam),
     camera_angles |-> angles, camera_radius |-> radius, fov |-> fov]

\* The loop left once one object is done.
LoopLeftEarly(idx, objects) == idx > Min(1, Len(objects))

\* render_collection line 235: whether `for o in objects` is over, idx being the
\* position, from one, of the next object to render.
LoopOver(idx, objects) == idx > Len(objects)

\* render_collection lines 235-243, generate_object_renderings lines 261-263: the
\* next object's camera angles and fields of view are generated (the assertion of
\* generate_camera_angles may fail) and its directory made.
StartObject ==
    /\ rPc = "object" /\ rObjIdx <= Len(rObjects)
    /\ IF AnglesAccepted(rCfg.num_views, rCfg.random)
       THEN /\ rAngles' \in CameraAngleArrays(rCfg.num_views, rCfg.random)
            /\ rFovs' = sample_bounded_scalar(rCfg.fov, rCfg.num_views)
            /\ rRecords' = <<>>
            /\ rPc' = "views"
       ELSE /\ rPc' = "aborted"
            /\ UNCHANGED <<rAngles, rFovs, rRecords>>
    /\ UNCHANGED <<rCfg, rEntries, rContents, rScene, rQueue, rCurrent, rRendered, rLoaded,
                   rObjects, rObjIdx, rMetadata, rCamera, rDisk, notR>>

\* generate_object_renderings lines 265-268, render_current_view lines 278-292: the
\* camera is put at the angles of the view (rotate_camera asserts a zero roll), the
\* view rendered and its frame data appended.  bpy.ops.render.render may fail, having
\* written any of its files; the exception ends the run.
RenderView ==
    /\ rPc = "views" /\ Len(rRecords) < Len(rAngles)
    /\ LET i == Len(rRecords)
           angles == rAngles[i + 1]
           save_path == SavePath(SaveDir(rCurrent, rObjects[rObjIdx]), i)
       IN  IF angles[3] # 0
           THEN /\ rPc' = "aborted"
                /\ UNCHANGED <<rCamera, rDisk, rRecords>>
           ELSE /\ rCamera' = rotate_camera(angles[1], angles[2], angles[3], rFovs[i + 1], CameraRadius)
                /\ \/ /\ rDisk' = [rDisk EXCEPT !.frames = @ \cup RenderOutputs(save_path)]
                      /\ rRecords' = Append(rRecords, FrameData(save_path, angles, rFovs[i + 1],
                                                                CameraRadius, rCamera'))
                      /\ UNCHANGED rPc
                   \/ /\ \E written \in FailedOutputs(save_path) :
                            rDisk' = [rDisk EXCEPT !.frames = @ \cup written]
                      /\ rPc' = "aborted"
                      /\ UNCHANGED rRecords
    /\ UNCHANGED <<rCfg, rEntries, rContents, rScene, rQueue, rCurrent, rRendered, rLoaded,
                   rObjects, rObjIdx, rAngles, rFovs, rMetadata, notR>>

\* generate_object_renderings line 270 and render_collection line 236: the list is
\* returned and stored under the name of the object.
FinishObject ==
    /\ rPc = "views" /\ Len(rRecords) = Len(rAngles)
    /\ rMetadata' = (rObjects[rObjIdx].name :> rRecords) @@ rMetadata
    /\ rObjIdx' = rObjIdx + 1
    /\ rPc' = "object"
    /\ UNCHANGED <<rCfg, rEntries, rContents, rScene, rQueue, rCurrent, rRendered, rLoaded,
                   rObjects, rAngles, rFovs, rRecords, rCamera, rDisk, notR>>

\* render_collection lines 246-253: every object done, metadata.json is written into
\* the directory of the collection and the objects rendered are deleted.
SaveMetadata ==
    /\ rPc = "object" /\ LoopOver(rObjIdx, rObjects)
    /\ rDisk' = [rDisk EXCEPT !.meta = (CollectionName(rCurrent) :> rMetadata) @@ @]
    /\ rScene' = rScene \ Range(rObjects)
    /\ rPc' = "next"
    /\ UNCHANGED <<rCfg, rEntries, rContents, rQueue, rCurrent, rRendered, rLoaded, rObjects,
                   rObjIdx, rAngles, rFovs, rRecords, rMetadata, rCamera, notR>>

\* run line 180: the loop over collection_dirs is over.
FinishRun ==
    /\ rPc = "next" /\ rQueue = <<>>
    /\ rPc' = "done"
    /\ UNCHANGED <<rCfg, rEntries, rContents, rScene, rQueue, rCurrent, rRendered, rLoaded,
                   rObjects, rObjIdx, rAngles, rFovs, rRecords, rMetadata, rCamera, rDisk, notR>>

RenderNext ==
    ListCollections \/ CleanScene \/ LoadCollection \/ ScaleAndFilter \/ StartObject
        \/ RenderView \/ FinishObject \/ SaveMetadata \/ FinishRun

SpecRender == RenderInit /\ [][RenderNext]_vars

(***************************************************************************)
(* remove_small_images.  The opacities are read from tmp.json, the file    *)
(* filter_models leaves when its dump is enabled: model path -> opacity.   *)
(***************************************************************************)
\* The opacities a model has in tmp.json.
OpacityValues == {0, Unit \div 2, Unit}

\* The tmp.json files, [exists, entries]: the entries are the first n model
\* directories, each with an opacity; or there is no file.
OpacityFiles ==
    UNION { { [exists |-> TRUE,
               entries |-> [k \in 1..n |-> [model |-> ModelPath(AllModelDirs[k]), opacity |-> v[k]]]] :
                v \in [1..n -> OpacityValues] } : n \in 0..Min(MaxModels, Len(AllModelDirs)) }
    \cup { [exists |-> FALSE, entries |-> <<>>] }

\* Line 38: whether a value is among vals_to_keep, vals > opacity_remove_thresh.
Preserved(opacity, thresh) == opacity > thresh

RemoveInit ==
    /\ OthersIdle("remove")
    /\ sOpacities \in OpacityFiles
    /\ sThresh \in FilterThresholds
    /\ sKept = NoValue
    /\ sPc = "start"

\* remove_small_images lines 34-39: tmp.json is read (there may be none), the
\* values above the threshold are selected and their share printed (with no value
\* at all the ratio divides by zero).
RemoveSmallImages ==
    /\ sPc = "start"
    /\ IF ~sOpacities.exists
       THEN sPc' = "aborted" /\ UNCHANGED sKept
       ELSE /\ sKept' = LET kept == SelectSeq(sOpacities.entries,
                                              LAMBDA e : Preserved(e.opacity, sThresh))
                        IN  [k \in 1..Len(kept) |-> kept[k].opacity]
            /\ sPc' = IF Len(sOpacities.entries) = 0 THEN "aborted" ELSE "done"
    /\ UNCHANGED <<sOpacities, sThresh, notS>>

RemoveNext == RemoveSmallImages

SpecRemove == RemoveInit /\ [][RemoveNext]_vars

(***************************************************************************)
(* Properties of get_euler_angles (SpecEuler).                             *)
(***************************************************************************)
\* 1e-7, the rounding error allowed to an extracted angle.
RoundTripTol == Unit \div 10^7

\* A finished call on the transform of angles with yaw in (-pi, pi], pitch in
\* [0, pi] and roll in (-pi/2, pi/2).
RoundTripCase ==
    /\ ePc = "done" /\ eAngles # NoValue
    /\ eAngles[1] > -Pi /\ eAngles[1] <= Pi
    /\ eAngles[2] >= 0 /\ eAngles[2] <= Pi
    /\ Abs(eAngles[3]) < HalfPi

\* The greatest distance of an extracted angle from the angle the transform was built from.
RoundTripError ==
    Max(Max(Abs(eOut.yaw - eAngles[1]), Abs(eOut.pitch - eAngles[2])),
        Abs(eOut.roll - eAngles[3]))

\* C3, as claimed: for the transform Rz(yaw) Ry(roll) Rx(pitch) of angles on the
\* grid with yaw in (-pi, pi], pitch in [0, pi] and roll in (-pi/2, pi/2),
\* get_euler_angles returns exactly (yaw, pitch, roll).
C3_ExactRoundTrip ==
    RoundTripCase => eOut.ok /\ <<eOut.yaw, eOut.pitch, eOut.roll>> = eAngles

\* C3, amended: for such a transform get_euler_angles returns (yaw, pitch, roll)
\* up to the rounding error of the arithmetic, each angle within 1e-7.
C3_RoundTrip ==
    RoundTripCase => eOut.ok /\ RoundTripError <= RoundTripTol

\* C3: a call whose result is off the angles, by rounding only.
C3_Witness ==
    /\ RoundTripCase
    /\ eAngles = <<-3 * QuarterPi, QuarterPi, -QuarterPi>>
    /\ RoundTripError > 0 /\ RoundTripError <= RoundTripTol

\* C14, as claimed: a negative raw pitch that is not within 1e-8 of 0 or of -pi
\* makes get_euler_angles abort by assertion instead of returning a value.
C14_OtherNegativePitchAborts ==
    (ePc = "done" /\ eOut.raw < 0 /\ ~(Abs(eOut.raw) < PitchEps \/ Abs(Pi + eOut.raw) < PitchEps))
        => ~eOut.ok

(***************************************************************************)
(* Properties of generate_camera_angles (SpecAngles).                      *)
(***************************************************************************)
\* C4: in random mode the call never aborts and returns num_views rows, each with
\* yaw in [-pi, pi), pitch in [0, pi] and roll 0.
C4_RandomAngles ==
    gRandom =>
        /\ gPc # "aborted"
        /\ gPc = "done" =>
              /\ Len(gOut) = gNumViews
              /\ \A i \in 1..Len(gOut) :
                    /\ Len(gOut[i]) = 3
                    /\ gOut[i][1] >= -Pi /\ gOut[i][1] < Pi
                    /\ gOut[i][2] >= 0 /\ gOut[i][2] <= Pi
                    /\ gOut[i][3] = 0

\* C4: a random call returned the most views, one of them at the least yaw and
\* one at the least pitch.
C4_Witness ==
    /\ gRandom /\ gPc = "done" /\ gNumViews = MaxViews /\ Len(gOut) = MaxViews
    /\ \E i \in 1..Len(gOut) : gOut[i][1] = -Pi
    /\ \E i \in 1..Len(gOut) : gOut[i][2] = 0

\* C5: in deterministic mode every num_views but 129 aborts at the first assertion;
\* with 129 the fifteen rings hold 129 views in all and the shape assertion passes.
C5_DeterministicCount ==
    (~gRandom /\ gPc \in {"generated", "done", "aborted"}) =>
        /\ gNumViews # DetViews => gPc = "aborted" /\ gYaw = NoValue /\ gOut = NoValue
        /\ gNumViews = DetViews =>
              /\ gPc # "aborted"
              /\ Len(RingYaw) = num_steps
              /\ Len(gYaw) = DetViews /\ Len(gPitch) = DetViews /\ Len(gRoll) = DetViews
              /\ gPc = "done" => Len(gOut) = DetViews /\ \A i \in 1..Len(gOut) : Len(gOut[i]) = 3

\* C5: a deterministic call with 129 views returned its 129 rows.
C5_Witness == ~gRandom /\ gNumViews = DetViews /\ gPc = "done" /\ Len(gOut) = DetViews

\* C6: in deterministic mode with 129 views every returned view has yaw in
\* (-pi, pi), pitch in (0, pi) and roll 0.
C6_DeterministicRange ==
    (~gRandom /\ gPc = "done") =>
        \A i \in 1..Len(gOut) :
            /\ gOut[i][1] > -Pi /\ gOut[i][1] < Pi
            /\ gOut[i][2] > 0 /\ gOut[i][2] < Pi
            /\ gOut[i][3] = 0

(***************************************************************************)
(* Properties of prepare_for_training (SpecPrepare).                       *)
(***************************************************************************)
\* The dataset.json files there are: the one in dst_dir and the one in the archive.
StoredDatasets ==
    (IF pDataset # NoValue THEN {pDataset} ELSE {})
    \cup (IF pArchive # NoValue THEN {pArchive.dataset} ELSE {})

\* C1: every (yaw, pitch) stored in camera_angles has -pi <= yaw <= pi and
\* 0 <= pitch <= pi, whether or not use_roll_angles is set.
C1_StoredAnglesInRange ==
    \A d \in StoredDatasets : \A k \in DOMAIN d.camera_angles :
        /\ d.camera_angles[k][1] >= -Pi /\ d.camera_angles[k][1] <= Pi
        /\ d.camera_angles[k][2] >= 0 /\ d.camera_angles[k][2] <= Pi

\* C1: with use_roll_angles set (nothing is verified), dataset.json holds a view
\* whose pitch came out of arctan2 negative.
C1_Witness ==
    /\ pUseRoll /\ pPc = "written"
    /\ \E k \in DOMAIN pAngles :
         /\ pAngles[k].raw < 0
         /\ pDataset.camera_angles[k][2] = -pAngles[k].raw

\* C2, as claimed: without use_roll_angles, dataset.json is written only if
\* every view's roll is within 1e-5 of zero.
C2_EveryRollSmall ==
    ~pUseRoll =>
        \A d \in StoredDatasets : \A k \in DOMAIN d.camera_angles :
            Abs(d.camera_angles[k][3]) < RollTol

\* C2, amended: without use_roll_angles, dataset.json is written only if the
\* mean of the views' absolute rolls is below 1e-5; otherwise the run has
\* aborted with nothing written.
C2_MeanRollSmall ==
    ~pUseRoll =>
        /\ \A d \in StoredDatasets :
              LET keys == DOMAIN d.camera_angles
              IN  SumOver(keys, [k \in keys |-> Abs(d.camera_angles[k][3])])
                      < RollTol * Cardinality(keys)
        /\ (pPc = "aborted" /\ pAngles # NoValue) => pDataset = NoValue /\ pArchive = NoValue

\* C2: dataset.json was written with a view whose roll is 1e-5 or more, the mean
\* being below.
C2_Witness ==
    /\ ~pUseRoll /\ pPc = "written"
    /\ \E k \in DOMAIN pDataset.camera_angles : Abs(pDataset.camera_angles[k][3]) >= RollTol

\* The files handed to copy_files, and the tree under dst_dir (also once archived).
CopiedFiles == {f \in pSrcFiles : ~NotCopied(f)}
CopiedTree == IF pArchive # NoValue THEN pArchive.files ELSE pDst
CopyOver == pPc \in {"loaded", "extracted", "written", "done"}

\* Whether no two of the jobs listed share a destination and the copy, in
\* whatever order it ran, left each file at its own.
OrderIndependent ==
    /\ \A i, j \in pJobs : i.dst = j.dst => i.src = j.src
    /\ CopyOver => /\ DOMAIN CopiedTree = {FlattenedPath(f) : f \in CopiedFiles}
                   /\ \A f \in CopiedFiles : CopiedTree[FlattenedPath(f)] = f

\* C9, as claimed: no two distinct files handed to copy_files get the same
\* destination, and every order of the copy jobs leaves the same tree.
C9_OrderIndependent == pPc # "idle" => OrderIndependent

\* A source tree as render_dataset writes it: every file to copy is a frame
\* collection/model/NNNNNN.png.
RenderedLayout ==
    \A f \in CopiedFiles : Len(f) = 3 /\ f[3] \in {Png(Frame(i)) : i \in 0..(Len(FrameNames) - 1)}

\* C9, amended: on a source tree as render_dataset writes it, no two distinct
\* files get the same destination and every order of the jobs leaves the same tree.
C9_RenderedOrderIndependent == (pPc # "idle" /\ RenderedLayout) => OrderIndependent

\* C9: the copy of a rendered tree with the models a and a_b in one collection is
\* over, each frame at its own destination.
C9_Witness ==
    /\ RenderedLayout /\ pPc = "loaded"
    /\ <<ColA, ModelA, Png(Frame(0))>> \in CopiedFiles
    /\ <<ColA, ModelAB, Png(Frame(0))>> \in CopiedFiles
    /\ Cardinality(DOMAIN pDst) = Cardinality(CopiedFiles)

\* C11, as claimed: with save_as_zip false, after the call dst_dir still exists
\* with its images and dataset.json, and no archive was created.
C11_ArchiveOnlyWhenAsked ==
    (pPc = "done" /\ ~pSaveZip) =>
        pArchive = NoValue /\ pDstExists /\ pDst # NoValue /\ pDataset # NoValue

\* The key of the file f of dst_dir in labels, and the directories that hold files.
LabelKey(f) == remove_root(f, pDstName)
LabelParents == {Dirname(f) : f \in DOMAIN pDst}

\* C12, as claimed: in the labels written, every file under dst_dir has an
\* integer in 0..K-1, K the number of distinct parent directories, and two
\* files have the same label if and only if they have the same parent.
C12_LabelsByParent ==
    pPc = "written" =>
        /\ \A f \in DOMAIN pDst :
              /\ LabelKey(f) \in DOMAIN pDataset.labels
              /\ pDataset.labels[LabelKey(f)] \in 0..(Cardinality(LabelParents) - 1)
        /\ \A f, g \in DOMAIN pDst :
              (pDataset.labels[LabelKey(f)] = pDataset.labels[LabelKey(g)])
                  <=> (Dirname(f) = Dirname(g))

\* C18, as claimed: in the dataset.json written from a tree as render_dataset
\* writes it, camera_angles and labels have the same keys, the paths of the
\* images under dst_dir.
C18_SameKeys ==
    (pPc = "written" /\ RenderedLayout) =>
        DOMAIN pDataset.camera_angles = DOMAIN pDataset.labels

(***************************************************************************)
(* Properties of filter_models (SpecFilter).                               *)
(***************************************************************************)
\* The average opacity of the images of the i-th model directory.
DirOpacity(i) == MeanOpacity(OpacityImages(fDirs[i]))

\* Whether the i-th model directory is to be kept: its average opacity is at least
\* the threshold and no line of low-quality-models.txt is its basename.
ToKeep(i) ==
    /\ DirOpacity(i) >= fThresh
    /\ ~\E k \in 1..Len(fLowFile.lines) : fLowFile.lines[k] = fDirs[i].name

\* C7: a model directory is copied under trg_path if and only if its average
\* opacity is >= opacity_remove_thresh and its basename is not listed in
\* low-quality-models.txt; no other model is ever under trg_path.
C7_CopiedIffKept ==
    /\ \A m \in fTrg : \E i \in DOMAIN fDirs : ModelPath(fDirs[i]) = m /\ ToKeep(i)
    /\ fPc = "done" => \A i \in DOMAIN fDirs : (ModelPath(fDirs[i]) \in fTrg) <=> ToKeep(i)

\* C7: a finished run copied a model whose opacity equals the threshold, left out
\* one below the threshold and left out a listed one that is above it.
C7_Witness ==
    /\ fPc = "done" /\ fThresh > 0
    /\ \E i \in DOMAIN fDirs : DirOpacity(i) = fThresh /\ ModelPath(fDirs[i]) \in fTrg
    /\ \E i \in DOMAIN fDirs : DirOpacity(i) < fThresh /\ ModelPath(fDirs[i]) \notin fTrg
    /\ \E i \in DOMAIN fDirs : DirOpacity(i) > fThresh /\ ModelPath(fDirs[i]) \notin fTrg

\* C8: whatever the order of the jobs, slot i of the shared list holds nothing but
\* the opacity of model i, once job i has stored it, and the dict returned gives
\* each model directory the opacity of its own images.
C8_SlotPerJob ==
    /\ fPc = "computing" =>
          \A i \in DOMAIN fDirs :
              fStorage[i] = (IF fJobPc[i] = "stored" THEN DirOpacity(i) ELSE 0)
    /\ fPc \in {"filtering", "copying", "done"} =>
          \A i \in DOMAIN fDirs : fOpacities[ModelPath(fDirs[i])] = DirOpacity(i)

\* C8: the dict was returned for the most models, their opacities all different.
C8_Witness ==
    /\ fPc = "filtering" /\ Cardinality(DOMAIN fDirs) = MaxModels
    /\ \A i, j \in DOMAIN fDirs : i # j => fOpacities[ModelPath(fDirs[i])] # fOpacities[ModelPath(fDirs[j])]
    /\ \A i \in DOMAIN fDirs : fOpacities[ModelPath(fDirs[i])] = DirOpacity(i)

\* C19, as claimed: after copy_collections, the keys of each target collection's
\* metadata.json are the model directories copied into that collection.
C19_MetadataOfCopied ==
    fPc = "done" =>
        \A c \in fTrgDirs : fTrgMeta[c] = {m[2] : m \in {k \in fTrg : k[1] = c}}

(***************************************************************************)
(* Properties of export_gltf.run (SpecExport).                             *)
(***************************************************************************)
\* Whether, when run was called, the output file of an object selected for export
\* was there already.
OutputExisted ==
    \E o \in xBefore.scene :
        /\ o.type \notin exclude_types
        /\ WithExt(get_object_col_path(xBefore.scene, o), SaveExt(xFormat)) \in xBefore.disk

\* C10: if the output file of any object selected for export exists already, the
\* run never gets to export or to delete: nothing is exported, no file is written
\* and no object deleted, and once the first loop is over the run has aborted.
C10_AbortBeforeExport ==
    (xPc # "idle" /\ OutputExisted) =>
        /\ xPc \in {"start", "checking", "aborted"}
        /\ xExported = {} /\ xDisk = xBefore.disk /\ xScene = xBefore.scene
        /\ (xPc = "checking" /\ xIdx > Len(xToSave)) => FALSE

\* C10: the run aborted at its second object, whose output file was there, the
\* first one checked and nothing exported.
C10_Witness ==
    /\ OutputExisted /\ xPc = "aborted" /\ xIdx = 2 /\ Len(xToSave) = 2
    /\ xExported = {} /\ xScene = xBefore.scene /\ xDisk = xBefore.disk


(***************************************************************************)
(* Properties of render_dataset.run (SpecRender).                          *)
(***************************************************************************)
\* Whether records is what num_views views leave: record i (from 0) has a
\* file_path ending in the six digits of i, the radius and field of view of the
\* configuration, and the matrix of the camera put at the angles it carries.
ViewRecords(records, num_views) ==
    /\ Len(records) = num_views
    /\ \A i \in 0..(num_views - 1) :
         /\ Last(records[i + 1].file_path) = Frame(i)
         /\ records[i + 1].camera_radius = CameraRadius
         /\ records[i + 1].fov = rCfg.fov.mean
         /\ records[i + 1].transform_matrix =
                CameraMatrix(rotate_camera(records[i + 1].camera_angles[1],
                                           records[i + 1].camera_angles[2],
                                           records[i + 1].camera_angles[3],
                                           records[i + 1].fov, CameraRadius))

\* C13: for every object rendered, metadata.json holds under the object's name
\* exactly num_views records in view order, record i with a file_path ending in
\* the six-digit index i, the camera's transform matrix, the angles and the field
\* of view used for view i and the camera radius.
C13_MetadataRecords ==
    /\ (rPc = "object" /\ rObjIdx > 1) =>
          LET records == rMetadata[rObjects[rObjIdx - 1].name]
          IN  /\ ViewRecords(records, rCfg.num_views)
              /\ \A i \in 1..Len(records) :
                   /\ records[i].camera_angles = rAngles[i]
                   /\ records[i].fov = rFovs[i]
                   /\ records[i].file_path = <<CollectionName(rCurrent),
                                               Underscored(rObjects[rObjIdx - 1].name), Frame(i - 1)>>
    /\ (rPc = "next" /\ rCurrent # NoValue) =>
          LET metadata == rDisk.meta[CollectionName(rCurrent)]
          IN  /\ DOMAIN metadata = {o.name : o \in Range(rObjects)}
              /\ \A name \in DOMAIN metadata : ViewRecords(metadata[name], rCfg.num_views)

\* C13: the metadata.json of c2 was written with two views of the object "m 2",
\* taken from different angles.
C13_Witness ==
    /\ rPc = "next" /\ rCurrent = <<"c2">> /\ rCfg.num_views = 2
    /\ <<"m", " ", "2">> \in DOMAIN rDisk.meta[<<"c2">>]
    /\ LET records == rDisk.meta[<<"c2">>][<<"m", " ", "2">>]
       IN  Len(records) = 2 /\ records[1].camera_angles # records[2].camera_angles
                            /\ records[1].transform_matrix # records[2].transform_matrix

\* Whether the object is smaller than the threshold in one of its dimensions.
SmallInSomeDimension(o, threshold) == \E i \in 1..3 : o.dims[i] < threshold

\* C15, as claimed: with a non-zero threshold filter_small_objects removes, and
\* deletes from the scene, exactly the objects smaller than the threshold in one
\* of their three dimensions and returns the others in their order; with the
\* threshold 0.0 it returns every object and deletes none.
C15_SmallInAnyDimension ==
    rPc = "object" =>
        /\ rObjects = IF rCfg.thresh = 0 THEN rLoaded
                      ELSE SelectSeq(rLoaded, LAMBDA o : ~SmallInSomeDimension(o, rCfg.thresh))
        /\ \A o \in Range(rLoaded) : o \in rScene <=> o \in Range(rObjects)

\* C16, as claimed: whenever render_collection reaches load_collection, the
\* scene holds exactly one object and that object is the camera.
C16_OnlyCameraAtLoad ==
    rPc = "load" => Cardinality(rScene) = 1 /\ \A o \in rScene : o.type = "CAMERA"

\* The position of an entry name in sorted order.
EntryRank(name) == CHOOSE i \in 1..Len(EntryNames) : EntryNames[i] = name

\* The sub-directories of collections_dir, and whether collections_skip_up_to
\* names one of them.
SubDirectories == {e.name : e \in {d \in rEntries : d.isdir}}
SkipListed == rCfg.skip \in SubDirectories

\* The collections to render: every sub-directory, or with collections_skip_up_to
\* set the one it names and those sorted after it.
ToRender ==
    IF rCfg.skip = NoValue THEN SubDirectories
    ELSE IF SkipListed THEN {d \in SubDirectories : EntryRank(d) >= EntryRank(rCfg.skip)}
    ELSE {}

\* C17: with collections_skip_up_to = X, run renders in sorted order the
\* collection X and those sorted after it and none sorted before it; with the key
\* unset it renders every sub-directory exactly once in sorted order.  (A run
\* that aborts has rendered a sorted prefix of them; with no sub-directory named
\* X the run aborts before rendering any.)
C17_SkipUpTo ==
    rPc # "idle" =>
        /\ \A i, j \in 1..Len(rRendered) : i < j => EntryRank(rRendered[i]) < EntryRank(rRendered[j])
        /\ Range(rRendered) \subseteq ToRender
        /\ \A d \in ToRender : \A k \in 1..Len(rRendered) :
              EntryRank(d) < EntryRank(rRendered[k]) => d \in Range(rRendered)
        /\ rPc = "done" => Range(rRendered) = ToRender

\* C17: a run with collections_skip_up_to = c2 over c1, c2, c3 and a file ended
\* having rendered c2 then c3.
C17_Witness ==
    /\ rPc = "done" /\ rCfg.skip = <<"c2">>
    /\ <<"c1">> \in SubDirectories
    /\ rRendered = << <<"c2">>, <<"c3">> >>

\* The views of the object o of the collection under way that were rendered in
\* full: the indices whose image, depth map and normal map are on disk.
RenderedViews(o) ==
    {i \in 0..(rCfg.num_views - 1) :
        RenderOutputs(SavePath(SaveDir(rCurrent, o), i)) \subseteq rDisk.frames}

\* Whether the collection's metadata.json was written.
MetadataWritten(collection_dir) == CollectionName(collection_dir) \in DOMAIN rDisk.meta

\* C21: a collection's metadata.json is written only after every object that
\* survived the small-object filter has had all its views rendered; once a render
\* step has failed, the collection has no metadata.json and no later collection
\* is rendered (the run has stopped with them still to come).
C21_MetadataAfterAllViews ==
    /\ \A c \in DOMAIN rDisk.meta : c \in {CollectionName(d) : d \in Range(rRendered)}
    /\ (rCurrent # NoValue /\ MetadataWritten(rCurrent)) =>
          /\ rPc \in {"next", "done"}
          /\ \A o \in Range(rObjects) :
               /\ o.name \in DOMAIN rDisk.meta[CollectionName(rCurrent)]
               /\ Len(rDisk.meta[CollectionName(rCurrent)][o.name]) = rCfg.num_views
               /\ RenderedViews(o) = 0..(rCfg.num_views - 1)
    /\ (rPc = "aborted" /\ rCurrent # NoValue) =>
          /\ ~MetadataWritten(rCurrent)
          /\ rRendered[Len(rRendered)] = rCurrent
          /\ \A d \in Range(rQueue) : d \notin Range(rRendered) /\ ~MetadataWritten(d)

\* C21: the render of the second view of an object of c2 failed, after c1 was
\* rendered and saved and with c3 still to come.
C21_Witness ==
    /\ rPc = "aborted" /\ rCfg.random /\ rCfg.num_views = 2
    /\ rCurrent = <<"c2">> /\ rQueue = << <<"c3">> >>
    /\ rObjIdx <= Len(rObjects) /\ Len(rRecords) = 1
    /\ MetadataWritten(<<"c1">>) /\ ~MetadataWritten(<<"c2">>)

\* C22: without use_roll_angles, a run whose angles fail an assertion of lines
\* 50-56 never gets to dataset.json, and once it has aborted there is no
\* dataset.json and no archive, dst_dir is still there and holds every image that
\* step 1 copied into it.
C22_ValidationAbortKeepsImages ==
    ~pUseRoll =>
        /\ pPc \in {"written", "done"} => AnglesVerified(pAngles)
        /\ (pPc = "extracted" /\ ~AnglesVerified(pAngles)) => pDataset = NoValue
        /\ (pPc = "aborted" /\ pAngles # NoValue) =>
              /\ ~AnglesVerified(pAngles)
              /\ pDataset = NoValue /\ pArchive = NoValue
              /\ pDstExists
              /\ DOMAIN pDst = {FlattenedPath(f) : f \in CopiedFiles}
              /\ \A d \in DOMAIN pDst : pDst[d] \in CopiedFiles /\ FlattenedPath(pDst[d]) = d

\* C22: a run without use_roll_angles aborted on the yaw and pitch assertions, the
\* roll assertion passed, with the copied images in dst_dir.
C22_Witness ==
    /\ ~pUseRoll /\ pPc = "aborted" /\ pAngles # NoValue
    /\ RollAssertion(pAngles) /\ ~YawPitchAssertions(pAngles)
    /\ pDstExists /\ DOMAIN pDst # {}
    /\ pDataset = NoValue /\ pArchive = NoValue

\* The names of the objects of the scene run selects for export.
SelectedNames == {o.name : o \in {q \in xBefore.scene : q.type \notin exclude_types}}

\* C23: with delete_all_objects_after_save set, the scene keeps the objects it
\* started with until every object selected for export has been exported; a run
\* that failed in the pre-check or in an export has the scene it started with, and
\* a run that ended has a scene with no object in it, whatever the types.
C23_DeleteAfterAllExports ==
    (xPc # "idle" /\ xDelete) =>
        /\ xScene # xBefore.scene => xPc = "done" /\ xExported = SelectedNames
        /\ xPc = "aborted" => xScene = xBefore.scene
        /\ xPc = "done" => xScene = {} /\ xExported = SelectedNames

\* C23: a run with delete_all_objects_after_save ended, the mesh exported and the
\* camera and the light, which were not, gone with it.
C23_Witness ==
    /\ xDelete /\ xPc = "done" /\ xScene = {}
    /\ xExported = {<<"cube">>}
    /\ \E o \in xBefore.scene : o.type = "CAMERA"
    /\ \E o \in xBefore.scene : o.type = "LIGHT"

(***************************************************************************)
(* Properties of remove_small_images (SpecRemove).                         *)
(***************************************************************************)
\* C20, as claimed: remove_small_images preserves exactly the values filter_models
\* keeps, those not less than the threshold, the threshold itself included.
C20_SameClassification ==
    sPc = "done" =>
        sKept = LET kept == SelectSeq(sOpacities.entries,
                                      LAMBDA e : KeptByOpacity(e.opacity, sThresh))
                IN  [k \in 1..Len(kept) |-> kept[k].opacity]

====
